---- MODULE Spec2Model ----
(***************************************************************************)
(* grpc-argument-validator: the field-path grammar, the rule-set compiler  *)
(* (validate_args / validate_streaming_args), the recursive path resolver  *)
(* (_recurse_validate) and the invocation wrapper.                         *)
(*                                                                         *)
(* A Python str is a sequence of one-character strings, so that split,     *)
(* rstrip, join, the f-strings and the regular expression of               *)
(* is_valid_field_path are computed character by character.                *)
(***************************************************************************)
EXTENDS Integers, Sequences, FiniteSets, TLC

VARIABLES
    config,     \* the arguments of the last decorator call, as the caller passed them
    decorator,  \* the decorator that was called: None, or Some of its name
    raised,     \* the message of the ValueError the decorator raised, or None
    wrapper,    \* the closure of the decorated handler (the resolved rule-set), or None
    call,       \* the record of the last invocation of the wrapper, or None
    arg_path,   \* fields.py: the argument of a call of is_valid_field_path
    is_valid,   \* fields.py: what the call returned, None before it
    _use_rich_grpc_errors,  \* ArgumentValidatorConfig._use_rich_grpc_errors
    previous,   \* the record of the invocation before the last one, where kept
    stream,     \* the invocation of the wrapper with a stream that is under way, or None
    invocations,  \* the invocations of the wrapper that run side by side
    status,     \* the Status the last call of _create_rich_validation_error built, or None
    caller_validators, \* a validators dict the caller owns and passes to decorators, or None
    handlers    \* the handlers decorated with the caller's objects, in order

vars ==
    <<config, decorator, raised, wrapper, call, arg_path, is_valid, _use_rich_grpc_errors,
      previous, stream, invocations, status, caller_validators, handlers>>

\* Python's None and a value that is not None: Optional[T] is None or Some(x)
None == <<>>

Some(x) == <<x>>

----------------------------------------------------------------------------
(* Bounds of the model.                                                    *)

\* most handlers decorated with the caller's objects in SpecShared
MaxHandlers == 2
\* most violations in one list handed to _create_rich_validation_error in
\* SpecStatus
MaxViolations == 2
\* longest string handed to is_valid_field_path in SpecPath
MaxPathLen == 4
\* most (bucket, path) entries in one decorator configuration of SpecReg
MaxRegRules == 2
\* most (bucket, path) entries in one decorator configuration of Spec
MaxRules == 2
\* most elements of a repeated field of a request
MaxElems == 2

\* the longest stream a handler is called with
MaxStreamLen == 2

\* the most invocations of the handler under way at a time
MaxInvocations == 2

----------------------------------------------------------------------------
(* Python str and list operations.                                         *)

Letter ==
    {"a","b","c","d","e","f","g","h","i","j","k","l","m","n","o","p","q","r","s",
     "t","u","v","w","x","y","z","A","B","C","D","E","F","G","H","I","J","K","L",
     "M","N","O","P","Q","R","S","T","U","V","W","X","Y","Z"}

Digit == {"0","1","2","3","4","5","6","7","8","9"}

\* s[:n]
Take(s, n) == IF Len(s) <= n THEN s ELSE SubSeq(s, 1, n)

\* s.split("."): the pieces between the dots, empty pieces kept
RECURSIVE SplitFrom(_, _, _)
SplitFrom(s, i, cur) ==
    IF i > Len(s) THEN <<cur>>
    ELSE IF s[i] = "." THEN <<cur>> \o SplitFrom(s, i + 1, <<>>)
    ELSE SplitFrom(s, i + 1, Append(cur, s[i]))

split(s) == SplitFrom(s, 1, <<>>)

\* s.rstrip("[]"): every trailing "[" or "]" removed
RECURSIVE rstrip(_)
rstrip(s) ==
    IF Len(s) > 0 /\ s[Len(s)] \in {"[", "]"} THEN rstrip(SubSeq(s, 1, Len(s) - 1))
    ELSE s

\* a marker that would never be seen
NoMarker(s) == FALSE

\* s.endswith("[]")
endswith(s) == Len(s) >= 2 /\ s[Len(s) - 1] = "[" /\ s[Len(s)] = "]"

\* sep.join(parts)
RECURSIVE join(_, _)
join(sep, parts) ==
    IF Len(parts) = 0 THEN <<>>
    ELSE IF Len(parts) = 1 THEN parts[1]
    ELSE parts[1] \o sep \o join(sep, Tail(parts))

\* [f for f in parts if f != ""]
RECURSIVE NonEmptyParts(_)
NonEmptyParts(parts) ==
    IF Len(parts) = 0 THEN <<>>
    ELSE IF parts[1] = <<>> THEN NonEmptyParts(Tail(parts))
    ELSE <<parts[1]>> \o NonEmptyParts(Tail(parts))

DigitChar == <<"0","1","2","3","4","5","6","7","8","9">>

\* str(i) of a non-negative int, as the f-strings f"{full_name}[{i}]" format it
RECURSIVE IntToStr(_)
IntToStr(i) ==
    IF i < 10 THEN <<DigitChar[i + 1]>>
    ELSE IntToStr(i \div 10) \o <<DigitChar[(i % 10) + 1]>>

\* x in xs, for a list
InList(x, xs) == \E i \in 1..Len(xs) : xs[i] = x

\* the concatenation of a list of lists (itertools.chain, list +)
RECURSIVE chain(_)
chain(lists) == IF Len(lists) = 0 THEN <<>> ELSE lists[1] \o chain(Tail(lists))

----------------------------------------------------------------------------
\* fields.py: is_valid_field_path and validate_field_names.
\* The regular expression of is_valid_field_path is matched by the sets of
\* positions each of its parts can end at.

IdentChar == Letter \cup Digit \cup {"_"}

\* an identifier starting at position i: the positions after a match
MatchIdent(s, i) ==
    {j \in (i + 1)..(Len(s) + 1) :
        /\ s[i] \in Letter
        /\ \A k \in (i + 1)..(j - 1) : s[k] \in IdentChar}

\* one more identifier-dot segment from a position of P
SegmentStep(s, P) ==
    UNION {{j + 1 : j \in {k \in MatchIdent(s, i) : k <= Len(s) /\ s[k] = "."}} : i \in P}

\* zero or more identifier-dot segments from the positions of P
RECURSIVE Segments(_, _)
Segments(s, P) ==
    LET Q == P \cup SegmentStep(s, P)
    IN  IF Q = P THEN P ELSE Segments(s, Q)

\* $ without re.MULTILINE: the end of the string, or just before a newline
\* that ends the string
AtDollar(s, i) == i = Len(s) + 1 \/ (i = Len(s) /\ s[i] = "\n")

\* the optional leading dot at the start of the string
OptionalDot(s) == {1} \cup (IF Len(s) >= 1 /\ s[1] = "." THEN {2} ELSE {})

\* the optional trailing marker from the positions of P
OptionalMarker(s, P) ==
    P \cup {i + 2 : i \in {k \in P : k + 1 <= Len(s) /\ s[k] = "[" /\ s[k + 1] = "]"}}

is_valid_field_path(p) ==
    LET root == Len(p) >= 1 /\ p[1] = "." /\ AtDollar(p, 2)
        last == UNION {MatchIdent(p, i) : i \in Segments(p, OptionalDot(p))}
    IN  root \/ \E i \in OptionalMarker(p, last) : AtDollar(p, i)

SyntaxErrorPrefix == <<"F", "i", "e", "l", "d", " ", "n", "a", "m", "e", " ">>

SyntaxErrorSuffix ==
    <<" ", "d", "o", "e", "s", " ", "n", "o", "t", " ", "a", "d", "h", "e", "r", "e", " ", "t", "o", " ", "P", "r", "o", "t", "o", "b", "u", "f", " ", "3", " ", "l", "a", "n", "g", "u", "a", "g", "e", " ", "s", "p", "e", "c", "i", "f", "i", "c", "a", "t", "i", "o", "n", ",", " ">>
    \o <<"m", "a", "y", " ", "b", "e", " ", "p", "r", "e", "p", "e", "n", "d", "e", "d", " ", "w", "i", "t", "h", " ", "'", ".", "'", " ", "o", "r", " ", "a", "p", "p", "e", "n", "d", "e", "d", " ", "w", "i", "t", "h", " ", "'", "[", "]", "'", ".", " ", "A", "l", "t", "e", "r", "n", "a", "t", "i", "v", "e", "l", "y", ",", " ", "'", ".", "'", " ", "s", "h", "o", "u", "l", "d", " ", "b", "e", " ", "u", "s", "e", "d", " ", "f", "o", "r", " ">>
    \o <<"p", "e", "r", "f", "o", "r", "m", "i", "n", "g", " ", "v", "a", "l", "i", "d", "a", "t", "i", "o", "n", "s", " ", "o", "n", " ", "t", "h", "e", " ", "'", "r", "o", "o", "t", "'", " ", "p", "r", "o", "t", "o", ".">>

\* the message of the ValueError validate_field_names raises for field_name
SyntaxError(field_name) == SyntaxErrorPrefix \o field_name \o SyntaxErrorSuffix

\* validate_field_names: the ValueError message for the first name that is
\* not a valid field path, None when every name is valid
RECURSIVE validate_field_names(_)
validate_field_names(field_names) ==
    IF Len(field_names) = 0 THEN None
    ELSE IF ~is_valid_field_path(field_names[1]) THEN SyntaxError(field_names[1])
    ELSE validate_field_names(Tail(field_names))

----------------------------------------------------------------------------
(* Python values. A value is [py |-> its Python type, v |-> its content];  *)
(* a protobuf message holds the name of its type and the fields that are   *)
(* set (proto3: a scalar at its default and an empty list are not set).    *)

PyStr(chars) == [py |-> "str", v |-> chars]

PyBytes(bytes) == [py |-> "bytes", v |-> bytes]

PyInt(n) == [py |-> "int", v |-> n]

PyList(elems) == [py |-> "list", v |-> elems]

PyNone == [py |-> "NoneType", v |-> <<>>]

Message(type, fields) == [py |-> "Message", v |-> [DESCRIPTOR |-> type, fields |-> fields]]

\* a == b in Python: values of different types are never equal
PyEq(a, b) == a.py = b.py /\ a.v = b.v

\* a function with no argument: the fields of a message with nothing set
NoFields == [n \in {} |-> PyNone]

----------------------------------------------------------------------------
(* The message types of tests/route_guide_protos and of the protobuf       *)
(* wrappers, as the tests use them: the reflection the engine reads.       *)

f_message == <<"m", "e", "s", "s", "a", "g", "e">>

f_rectangle == <<"r", "e", "c", "t", "a", "n", "g", "l", "e">>

f_uuid == <<"u", "u", "i", "d">>

f_lo == <<"l", "o">>

f_hi == <<"h", "i">>

f_x == <<"x">>

f_y == <<"y">>

f_name == <<"n", "a", "m", "e">>

f_value == <<"v", "a", "l", "u", "e">>

f_points == <<"p", "o", "i", "n", "t", "s">>

f_tags == <<"t", "a", "g", "s">>

f_path == <<"p", "a", "t", "h">>

f_planet == <<"p", "l", "a", "n", "e", "t">>

LABEL_OPTIONAL == "LABEL_OPTIONAL"

LABEL_REPEATED == "LABEL_REPEATED"

TYPE_MESSAGE == "TYPE_MESSAGE"

\* FieldDescriptor: name, label, type, message_type (of a message field) and
\* default_value (None for a message, [] for a repeated field)
FieldDescriptor(name, label, type, message_type, default_value) ==
    [kind |-> "FieldDescriptor", name |-> name, label |-> label, type |-> type,
     message_type |-> message_type, default_value |-> default_value]

MessageField(name, message_type) ==
    FieldDescriptor(name, LABEL_OPTIONAL, TYPE_MESSAGE, message_type, PyNone)

RepeatedField(name, type, message_type) ==
    FieldDescriptor(name, LABEL_REPEATED, type, message_type, PyList(<<>>))

ScalarField(name, type, default_value) ==
    FieldDescriptor(name, LABEL_OPTIONAL, type, "", default_value)

\* the enum Planet
PLANET_INVALID == 0

PLANET_EARTH == 1

\* Descriptor: the name of a message type and its fields
Descriptors ==
    [Area |->
        [kind |-> "Descriptor", name |-> <<"A", "r", "e", "a">>,
         fields |-> <<MessageField(f_message, "StringValue"),
                      MessageField(f_rectangle, "Rectangle"),
                      MessageField(f_uuid, "BytesValue")>>],
     Rectangle |->
        [kind |-> "Descriptor", name |-> <<"R", "e", "c", "t", "a", "n", "g", "l", "e">>,
         fields |-> <<MessageField(f_lo, "Point"),
                      MessageField(f_hi, "Point")>>],
     Point |->
        [kind |-> "Descriptor", name |-> <<"P", "o", "i", "n", "t">>,
         fields |-> <<ScalarField(f_x, "TYPE_INT32", PyInt(0)),
                      ScalarField(f_y, "TYPE_INT32", PyInt(0)),
                      MessageField(f_name, "StringValue")>>],
     Path |->
        [kind |-> "Descriptor", name |-> <<"P", "a", "t", "h">>,
         fields |-> <<RepeatedField(f_points, TYPE_MESSAGE, "Point")>>],
     Route |->
        [kind |-> "Descriptor", name |-> <<"R", "o", "u", "t", "e">>,
         fields |-> <<MessageField(f_name, "StringValue"),
                      MessageField(f_path, "Path"),
                      MessageField(f_planet, "PlanetValue"),
                      RepeatedField(f_tags, "TYPE_STRING", "")>>],
     StringValue |->
        [kind |-> "Descriptor", name |-> <<"S", "t", "r", "i", "n", "g", "V", "a", "l", "u", "e">>,
         fields |-> <<ScalarField(f_value, "TYPE_STRING", PyStr(<<>>))>>],
     BytesValue |->
        [kind |-> "Descriptor", name |-> <<"B", "y", "t", "e", "s", "V", "a", "l", "u", "e">>,
         fields |-> <<ScalarField(f_value, "TYPE_BYTES", PyBytes(<<>>))>>],
     PlanetValue |->
        [kind |-> "Descriptor", name |-> <<"P", "l", "a", "n", "e", "t", "V", "a", "l", "u", "e">>,
         fields |-> <<ScalarField(f_value, "TYPE_ENUM", PyInt(PLANET_INVALID))>>]]

\* message.DESCRIPTOR
DescriptorOf(message) == Descriptors[message.v.DESCRIPTOR]

\* name in DESCRIPTOR.fields_by_name
HasDescriptorField(descriptor, name) ==
    \E i \in 1..Len(descriptor.fields) : descriptor.fields[i].name = name

\* DESCRIPTOR.fields_by_name[name]
fields_by_name(descriptor, name) ==
    descriptor.fields[CHOOSE i \in 1..Len(descriptor.fields) : descriptor.fields[i].name = name]

\* message.HasField(field_name), for a field of the message's type
HasField(message, field_name) == field_name \in DOMAIN message.v.fields

\* getattr(message, field_name), for a field of the message's type: the value
\* set, or the default of an unset field (an empty message, an empty list, the
\* scalar default)
getattr(message, field_name) ==
    LET fd == fields_by_name(DescriptorOf(message), field_name)
    IN  IF field_name \in DOMAIN message.v.fields THEN message.v.fields[field_name]
        ELSE IF fd.label = LABEL_REPEATED THEN PyList(<<>>)
        ELSE IF fd.type = TYPE_MESSAGE THEN Message(fd.message_type, NoFields)
        ELSE fd.default_value

----------------------------------------------------------------------------
(* validation_context.py, validation_result.py, argument_validators.py.    *)

\* a context that names the first element of the stream, whatever the index
ContextOfFirst(is_streaming, streaming_message_index) ==
    [is_streaming |-> is_streaming,
     streaming_message_index |-> IF is_streaming THEN Some(0) ELSE None]

ValidationContext(is_streaming, streaming_message_index) ==
    [is_streaming |-> is_streaming, streaming_message_index |-> streaming_message_index]

\* what v.check(...) does: it returns ValidationResult(valid, invalid_reason),
\* or an exception leaves it (exc)
ValidationResult(valid, invalid_reason) ==
    [exc |-> None, valid |-> valid, invalid_reason |-> invalid_reason]

CheckRaises(exc) == [exc |-> Some(exc), valid |-> FALSE, invalid_reason |-> None]

\* len(value) raises TypeError for an int and for a protobuf message
HasLen(value) == value.py \in {"str", "bytes", "list"}

\* uuid.UUID(bytes=value) wants exactly 16 bytes
UUIDBytesLen == 16

MustBeValidUUID == <<" ", "m", "u", "s", "t", " ", "b", "e", " ", "a", " ", "v", "a", "l", "i", "d", " ", "U", "U", "I", "D">>

MustHaveNonDefault == <<" ", "m", "u", "s", "t", " ", "h", "a", "v", "e", " ", "n", "o", "n", "-", "d", "e", "f", "a", "u", "l", "t", " ", "v", "a", "l", "u", "e">>

MustBeNonEmpty == <<" ", "m", "u", "s", "t", " ", "b", "e", " ", "n", "o", "n", "-", "e", "m", "p", "t", "y">>

MustMatchPattern == <<" ", "m", "u", "s", "t", " ", "m", "a", "t", "c", "h", " ", "r", "e", "g", "e", "x", "p", " ", "p", "a", "t", "t", "e", "r", "n", ":", " ">>

RequestMustHave == <<"r", "e", "q", "u", "e", "s", "t", " ", "m", "u", "s", "t", " ", "h", "a", "v", "e", " ">>

\* the pattern of the tests' RegexpValidator: one or more digits
DigitsPattern == <<"\\", "d", "+">>

UUIDBytesValidator == [cls |-> "UUIDBytesValidator", _pattern |-> <<>>, _field_name |-> <<>>]

NonDefaultValidator == [cls |-> "NonDefaultValidator", _pattern |-> <<>>, _field_name |-> <<>>]

NonEmptyValidator == [cls |-> "NonEmptyValidator", _pattern |-> <<>>, _field_name |-> <<>>]

RegexpValidator(pattern) ==
    [cls |-> "RegexpValidator", _pattern |-> pattern, _field_name |-> <<>>]

\* UUIDBytesValidator.check: uuid.UUID(bytes=value) raises ValueError unless
\* len(value) is 16 and TypeError when value has no len, both caught; 16
\* items that are not bytes fail its assertion
UUIDBytesValidator_check(name, value, field_descriptor, validation_context) ==
    IF ~HasLen(value) \/ Len(value.v) # UUIDBytesLen
    THEN ValidationResult(FALSE, Some(name \o MustBeValidUUID))
    ELSE IF value.py # "bytes" THEN CheckRaises("AssertionError")
    ELSE ValidationResult(TRUE, None)

\* NonDefaultValidator.check: a Descriptor (the root path) has no default_value
NonDefaultValidator_check(name, value, field_descriptor, validation_context) ==
    IF field_descriptor.kind # "FieldDescriptor" THEN CheckRaises("AttributeError")
    ELSE IF ~PyEq(value, field_descriptor.default_value) THEN ValidationResult(TRUE, None)
    ELSE ValidationResult(FALSE, Some(name \o MustHaveNonDefault))

\* NonEmptyValidator.check
NonEmptyValidator_check(name, value, field_descriptor, validation_context) ==
    IF ~HasLen(value) THEN CheckRaises("TypeError")
    ELSE IF Len(value.v) > 0 THEN ValidationResult(TRUE, None)
    ELSE ValidationResult(FALSE, Some(name \o MustBeNonEmpty))

\* re.match(pattern, string) is not None, for the patterns of the model
re_match(pattern, string) ==
    /\ pattern = DigitsPattern
    /\ Len(string) >= 1
    /\ string[1] \in Digit

\* RegexpValidator.check: re.match raises TypeError unless value is a str
RegexpValidator_check(self, name, value, field_descriptor, validation_context) ==
    IF value.py # "str" THEN CheckRaises("TypeError")
    ELSE IF re_match(self._pattern, value.v) THEN ValidationResult(TRUE, None)
    ELSE ValidationResult(FALSE, Some(name \o MustMatchPattern \o self._pattern))

\* the validator of a whole Route of the tests
RouteValidator == [cls |-> "RouteValidator", _pattern |-> <<>>, _field_name |-> <<>>]

PointsShouldBeNonEmpty ==
    <<".", "p", "a", "t", "h", ".", "p", "o", "i", "n", "t", "s", " ", "s", "h", "o", "u", "l", "d", " ", "b", "e", " ", "n", "o", "n", "-", "e", "m", "p", "t", "y">>

NameShouldBeNonEmpty ==
    <<".", "n", "a", "m", "e", ".", "v", "a", "l", "u", "e", " ", "s", "h", "o", "u", "l", "d", " ", "b", "e", " ", "n", "o", "n", "-", "e", "m", "p", "t", "y">>

\* RouteValidator.check: value.path raises AttributeError unless value is a
\* Route; the reasons are joined with ", "
RouteValidator_check(name, value, field_descriptor, validation_context) ==
    IF value.py # "Message" \/ value.v.DESCRIPTOR # "Route" THEN CheckRaises("AttributeError")
    ELSE LET invalid_reasons ==
                (IF Len(getattr(getattr(value, f_path), f_points).v) = 0
                 THEN <<name \o PointsShouldBeNonEmpty>> ELSE <<>>)
                \o (IF ~(HasField(value, f_name)
                         /\ getattr(getattr(value, f_name), f_value).v # <<>>)
                    THEN <<name \o NameShouldBeNonEmpty>> ELSE <<>>)
         IN  ValidationResult(Len(invalid_reasons) = 0,
                              Some(join(<<",", " ">>, invalid_reasons)))

\* v.check(name, value, field_descriptor, validation_context)
check(v, name, value, field_descriptor, validation_context) ==
    CASE v.cls = "UUIDBytesValidator" ->
            UUIDBytesValidator_check(name, value, field_descriptor, validation_context)
      [] v.cls = "NonDefaultValidator" ->
            NonDefaultValidator_check(name, value, field_descriptor, validation_context)
      [] v.cls = "NonEmptyValidator" ->
            NonEmptyValidator_check(name, value, field_descriptor, validation_context)
      [] v.cls = "RegexpValidator" ->
            RegexpValidator_check(v, name, value, field_descriptor, validation_context)
      [] v.cls = "RouteValidator" ->
            RouteValidator_check(name, value, field_descriptor, validation_context)

----------------------------------------------------------------------------
(* validate_args_decorator.py: _recurse_validate.                          *)
(* A result is what the call returns (errors) or the exception that leaves *)
(* it (exc), with the record of what it did: every HasField test and every *)
(* v.check call, in the order made.                                        *)

_Error(field_name, reason) == [field_name |-> field_name, reason |-> reason]

Returns(errors, did) == [exc |-> None, errors |-> errors, did |-> did]

Raises(exc, did) == [exc |-> Some(exc), errors |-> <<>>, did |-> did]

\* a loop that would stop at the first turn that found an error
StopAtFirstError(a, b) ==
    IF a.exc # None \/ Len(a.errors) > 0 THEN a
    ELSE [exc |-> b.exc, errors |-> a.errors \o b.errors, did |-> a.did \o b.did]

\* first a, then (unless an exception left a) b
AndThen(a, b) ==
    IF a.exc # None THEN a
    ELSE [exc |-> b.exc, errors |-> a.errors \o b.errors, did |-> a.did \o b.did]

DidHasField(full_name, present) ==
    [op |-> "HasField", name |-> full_name, validator |-> <<>>, validation_context |-> <<>>,
     ok |-> present]

DidCheck(v, full_name, validation_context, result) ==
    [op |-> "check", name |-> full_name, validator |-> Some(v),
     validation_context |-> Some(validation_context),
     ok |-> result.exc = None /\ result.valid]

\* lines 250-258 and 261-267: the _Error a validation_result may add
AppendError(v, full_name, validation_context, validation_result) ==
    IF validation_result.exc # None
    THEN Raises(validation_result.exc[1],
                <<DidCheck(v, full_name, validation_context, validation_result)>>)
    ELSE IF ~validation_result.valid
    THEN Returns(<<_Error(full_name,
                          IF validation_result.invalid_reason = None THEN <<>>
                          ELSE validation_result.invalid_reason[1])>>,
                 <<DidCheck(v, full_name, validation_context, validation_result)>>)
    ELSE Returns(<<>>, <<DidCheck(v, full_name, validation_context, validation_result)>>)

\* a loop body that would call v.check a second time
CheckTwice(v, full_name, value, field_descriptor, validation_context) ==
    AndThen(AppendError(v, full_name, validation_context,
                        check(v, full_name, value, field_descriptor, validation_context)),
            AppendError(v, full_name, validation_context,
                        check(v, full_name, value, field_descriptor, validation_context)))

\* lines 249-258 and 260-267: one v.check call and the _Error it may add
CheckOne(v, full_name, value, field_descriptor, validation_context) ==
    AppendError(v, full_name, validation_context,
                check(v, full_name, value, field_descriptor, validation_context))

\* elements counted from one
IndexedFromOne(full_name, i) == full_name \o <<"[">> \o IntToStr(i + 1) \o <<"]">>

\* f"{full_name}[{i}]"
Indexed(full_name, i) == full_name \o <<"[">> \o IntToStr(i) \o <<"]">>

\* lines 247-258: for i, field_value_elem in enumerate(field_value), from index i
RECURSIVE CheckElems(_, _, _, _, _, _)
CheckElems(v, full_name, elems, i, field_descriptor, validation_context) ==
    IF i >= Len(elems) THEN Returns(<<>>, <<>>)
    ELSE AndThen(CheckOne(v, Indexed(full_name, i), elems[i + 1], field_descriptor,
                          validation_context),
                 CheckElems(v, full_name, elems, i + 1, field_descriptor, validation_context))

\* lines 245-267: for v in validators
RECURSIVE ApplyValidators(_, _, _, _, _, _)
ApplyValidators(validators, field_name_raw, full_name, field_value, field_descriptor, validation_context) ==
    IF Len(validators) = 0 THEN Returns(<<>>, <<>>)
    ELSE LET v == validators[1]
             one ==
                IF endswith(field_name_raw) /\ field_descriptor.kind # "FieldDescriptor"
                THEN Raises("AttributeError", <<>>)
                ELSE IF endswith(field_name_raw) /\ field_descriptor.label = LABEL_REPEATED
                THEN CheckElems(v, full_name, field_value.v, 0, field_descriptor,
                                validation_context)
                ELSE CheckOne(v, full_name, field_value, field_descriptor, validation_context)
         IN  AndThen(one,
                     ApplyValidators(Tail(validators), field_name_raw, full_name, field_value,
                                     field_descriptor, validation_context))

RECURSIVE _recurse_validate(_, _, _, _, _, _)
RECURSIVE RecurseElems(_, _, _, _, _, _, _)

\* lines 222-232: for i, elem in enumerate(field_value), from index i
RecurseElems(elems, i, remaining_name, full_name, validators, is_optional, validation_context) ==
    IF i >= Len(elems) THEN Returns(<<>>, <<>>)
    ELSE AndThen(_recurse_validate(elems[i + 1], remaining_name, validation_context,
                                   validators, Some(Indexed(full_name, i)), is_optional),
                 RecurseElems(elems, i + 1, remaining_name, full_name, validators,
                              is_optional, validation_context))

\* lines 220-268, once field_value, field_descriptor and full_name are known
Descend(field_name_raw, remaining_fields, field_value, field_descriptor, full_name, validation_context, validators, is_optional) ==
    IF Len(remaining_fields) > 0
    THEN IF field_descriptor.kind # "FieldDescriptor" THEN Raises("AttributeError", <<>>)
         ELSE IF field_descriptor.label = LABEL_REPEATED
         THEN RecurseElems(field_value.v, 0, join(<<".">>, remaining_fields), full_name,
                           validators, is_optional, validation_context)
         ELSE _recurse_validate(field_value, join(<<".">>, remaining_fields),
                                validation_context, validators, Some(full_name), is_optional)
    ELSE ApplyValidators(validators, field_name_raw, full_name, field_value,
                         field_descriptor, validation_context)

_recurse_validate(message, name, validation_context, validators, leading_parts_name, is_optional) ==
    LET parts == split(name)
        field_name_raw == parts[1]
        field_name == rstrip(field_name_raw)
        remaining_fields == NonEmptyParts(Tail(parts))
    IN  IF message.py # "Message" THEN Raises("AttributeError", <<>>)
        ELSE IF leading_parts_name = None /\ field_name = <<>>
        THEN Descend(field_name_raw, remaining_fields, message, DescriptorOf(message),
                     DescriptorOf(message).name, validation_context, validators, is_optional)
        ELSE IF ~HasDescriptorField(DescriptorOf(message), field_name)
        THEN Raises("KeyError", <<>>)
        ELSE LET field_descriptor == fields_by_name(DescriptorOf(message), field_name)
                 full_name == IF leading_parts_name = None THEN field_name
                              ELSE leading_parts_name[1] \o <<".">> \o field_name
             IN  IF /\ field_descriptor.label # LABEL_REPEATED
                    /\ field_descriptor.type = TYPE_MESSAGE
                 THEN IF ~HasField(message, field_name)
                      THEN IF is_optional
                           THEN Returns(<<>>, <<DidHasField(full_name, FALSE)>>)
                           ELSE Returns(<<_Error(full_name, RequestMustHave \o full_name)>>,
                                        <<DidHasField(full_name, FALSE)>>)
                      ELSE AndThen(Returns(<<>>, <<DidHasField(full_name, TRUE)>>),
                                   Descend(field_name_raw, remaining_fields,
                                           getattr(message, field_name), field_descriptor,
                                           full_name, validation_context, validators,
                                           is_optional))
                 ELSE Descend(field_name_raw, remaining_fields, getattr(message, field_name),
                              field_descriptor, full_name, validation_context, validators,
                              is_optional)

----------------------------------------------------------------------------
(* Python dict, insertion-ordered: a list of <<key, value>> with distinct  *)
(* keys.                                                                   *)

\* list(d.keys())
keys(d) == [i \in 1..Len(d) |-> d[i][1]]

\* key in d
InDict(key, d) == \E i \in 1..Len(d) : d[i][1] = key

\* d.get(key): None when the key is absent
get(d, key) ==
    IF InDict(key, d) THEN Some(d[CHOOSE i \in 1..Len(d) : d[i][1] = key][2]) ELSE None

\* d[key] = value: a present key keeps its place
setitem(d, key, value) ==
    IF InDict(key, d)
    THEN [i \in 1..Len(d) |-> IF d[i][1] = key THEN <<key, value>> ELSE d[i]]
    ELSE Append(d, <<key, value>>)

\* {**a, **b}
RECURSIVE merge(_, _)
merge(a, b) == IF Len(b) = 0 THEN a ELSE merge(setitem(a, b[1][1], b[1][2]), Tail(b))

\* a registration without the test of line 117
NeverIntersects(a, b) == FALSE

\* set(a).intersection(set(b)) is not empty
Intersects(a, b) == \E i \in 1..Len(a) : InList(a[i], b)

----------------------------------------------------------------------------
(* validate_args_decorator.py: validate_args, the rule-set compiler.       *)

ShouldProvideAtLeastOne == <<"S", "h", "o", "u", "l", "d", " ", "p", "r", "o", "v", "i", "d", "e", " ", "a", "t", " ", "l", "e", "a", "s", "t", " ", "o", "n", "e", " ", "f", "i", "e", "l", "d", " ", "t", "o", " ", "v", "a", "l", "i", "d", "a", "t", "e">>

OverlapInMandatoryAndOptional == <<"O", "v", "e", "r", "l", "a", "p", " ", "i", "n", " ", "m", "a", "n", "d", "a", "t", "o", "r", "y", " ", "a", "n", "d", " ", "o", "p", "t", "i", "o", "n", "a", "l", " ", "f", "i", "e", "l", "d", "s">>

\* the parameters of both decorators, in the order of their signatures
Buckets ==
    <<"has", "uuids", "non_default", "non_empty", "optional_uuids", "optional_non_empty",
      "optional_non_default", "validators", "optional_validators">>

\* all(arg is None for arg in locals().values())
AllArgsNone(args) == \A i \in 1..Len(Buckets) : args[Buckets[i]] = None

\* arg or []  (arg or dict()): None and the empty list (dict) give a new empty one
OrEmpty(arg) == IF arg = None THEN <<>> ELSE arg[1]

\* what a decorator call does: it raises ValueError(message), or it returns
\* the wrapper of the handler it decorates
RaisesValueError(message) == [raised |-> Some(message), wrapper |-> None]

ReturnsWrapper(closure) == [raised |-> None, wrapper |-> Some(closure)]

\* lines 80-118, then decorating_function(func): the variables the wrapper
\* closes over
validate_args(args) ==
    IF AllArgsNone(args) THEN RaisesValueError(ShouldProvideAtLeastOne)
    ELSE LET has_value == OrEmpty(args.has)
             optional_uuids_value == OrEmpty(args.optional_uuids)
             optional_non_empty_value == OrEmpty(args.optional_non_empty)
             optional_non_default_value == OrEmpty(args.optional_non_default)
             optional_validators_value == OrEmpty(args.optional_validators)
             uuids_value == OrEmpty(args.uuids)
             non_empty_value == OrEmpty(args.non_empty)
             non_default_value == OrEmpty(args.non_default)
             validators_value == OrEmpty(args.validators)
             field_names ==
                chain(<<has_value, uuids_value, optional_uuids_value, non_empty_value,
                        optional_non_empty_value, non_default_value,
                        optional_non_default_value, keys(validators_value),
                        keys(optional_validators_value)>>)
             syntax == validate_field_names(field_names)
             mandatory_fields ==
                uuids_value \o non_empty_value \o non_default_value \o keys(validators_value)
             optional_fields ==
                optional_uuids_value \o optional_non_empty_value
                    \o optional_non_default_value \o keys(optional_validators_value)
         IN  IF syntax # None THEN RaisesValueError(syntax)
             ELSE IF Intersects(mandatory_fields, optional_fields)
             THEN RaisesValueError(OverlapInMandatoryAndOptional)
             ELSE ReturnsWrapper(
                    [decorator |-> "validate_args",
                     has_value |-> has_value,
                     uuids_value |-> uuids_value,
                     optional_uuids_value |-> optional_uuids_value,
                     non_empty_value |-> non_empty_value,
                     optional_non_empty_value |-> optional_non_empty_value,
                     non_default_value |-> non_default_value,
                     optional_non_default_value |-> optional_non_default_value,
                     validators_value |-> validators_value,
                     optional_validators_value |-> optional_validators_value,
                     field_names |-> field_names])

----------------------------------------------------------------------------
(* validate_streaming_args_decorator.py: validate_streaming_args.          *)

StreamingHasFieldValidator(field_name) ==
    [cls |-> "StreamingHasFieldValidator", _pattern |-> <<>>, _field_name |-> field_name]

\* lines 80-84: *path, value_name = value.split("."), and the key the has
\* validator of value is stored under
HasValueName(value) == split(value)[Len(split(value))]

HasPathStr(value) ==
    LET parts == split(value)
        path == SubSeq(parts, 1, Len(parts) - 1)
    IN  IF Len(path) = 0 THEN <<".">> ELSE join(<<".">>, path)

\* lines 79-85: for value in has or []
RECURSIVE AddHasValidators(_, _)
AddHasValidators(validators_value, has) ==
    IF Len(has) = 0 THEN validators_value
    ELSE AddHasValidators(
            setitem(validators_value, HasPathStr(has[1]),
                    StreamingHasFieldValidator(HasValueName(has[1]))),
            Tail(has))

\* lines 66-111, then decorating_function(func)
validate_streaming_args(args) ==
    IF AllArgsNone(args) THEN RaisesValueError(ShouldProvideAtLeastOne)
    ELSE LET optional_uuids_value == OrEmpty(args.optional_uuids)
             optional_non_empty_value == OrEmpty(args.optional_non_empty)
             optional_non_default_value == OrEmpty(args.optional_non_default)
             optional_validators_value == OrEmpty(args.optional_validators)
             uuids_value == OrEmpty(args.uuids)
             non_empty_value == OrEmpty(args.non_empty)
             non_default_value == OrEmpty(args.non_default)
             validators_value == AddHasValidators(OrEmpty(args.validators), OrEmpty(args.has))
             field_names ==
                chain(<<uuids_value, optional_uuids_value, non_empty_value,
                        optional_non_empty_value, non_default_value,
                        optional_non_default_value, keys(validators_value),
                        keys(optional_validators_value)>>)
             syntax == validate_field_names(field_names)
             mandatory_fields ==
                uuids_value \o non_empty_value \o non_default_value \o keys(validators_value)
             optional_fields ==
                optional_uuids_value \o optional_non_empty_value
                    \o optional_non_default_value \o keys(optional_validators_value)
         IN  IF syntax # None THEN RaisesValueError(syntax)
             ELSE IF Intersects(mandatory_fields, optional_fields)
             THEN RaisesValueError(OverlapInMandatoryAndOptional)
             ELSE ReturnsWrapper(
                    [decorator |-> "validate_streaming_args",
                     has_value |-> <<>>,
                     uuids_value |-> uuids_value,
                     optional_uuids_value |-> optional_uuids_value,
                     non_empty_value |-> non_empty_value,
                     optional_non_empty_value |-> optional_non_empty_value,
                     non_default_value |-> non_default_value,
                     optional_non_default_value |-> optional_non_default_value,
                     validators_value |-> validators_value,
                     optional_validators_value |-> optional_validators_value,
                     field_names |-> field_names])

----------------------------------------------------------------------------
(* validate_args_decorator.py: the invocation wrapper.                     *)

\* the summary string of a rejection keeps this many characters
MaxMessageLen == 1000

\* [e.reason for e in errors]
Reasons(errors) == [i \in 1..Len(errors) |-> errors[i].reason]

\* a Status whose message is the whole joined string
StatusOfWholeMessage(errors) ==
    [code |-> "INVALID_ARGUMENT",
     message |-> join(<<",", " ">>, Reasons(errors)),
     details |->
        <<[field_violations |->
            [i \in 1..Len(errors) |->
                [field |-> errors[i].field_name, description |-> errors[i].reason]]]>>]

\* _create_rich_validation_error: the Status with the BadRequest detail
_create_rich_validation_error(errors) ==
    [code |-> "INVALID_ARGUMENT",
     message |-> Take(join(<<",", " ">>, Reasons(errors)), MaxMessageLen),
     details |->
        <<[field_violations |->
            [i \in 1..Len(errors) |->
                [field |-> errors[i].field_name, description |-> errors[i].reason]]]>>]

\* lines 124-140: the validators of field_name and whether it is optional
FieldValidators(w, field_name) ==
    (IF InList(field_name, w.uuids_value \o w.optional_uuids_value)
     THEN <<UUIDBytesValidator>> ELSE <<>>)
    \o (IF InList(field_name, w.non_empty_value \o w.optional_non_empty_value)
        THEN <<NonEmptyValidator>> ELSE <<>>)
    \o (IF InList(field_name, w.non_default_value \o w.optional_non_default_value)
        THEN <<NonDefaultValidator>> ELSE <<>>)
    \o (IF InList(field_name, keys(w.validators_value) \o keys(w.optional_validators_value))
        THEN get(merge(w.validators_value, w.optional_validators_value), field_name)
        ELSE <<>>)

\* an is_optional that would read optional_validators alone
OnlyOptionalValidators(w, field_name) == InDict(field_name, w.optional_validators_value)

IsOptional(w, field_name) ==
    \/ InList(field_name, w.optional_non_empty_value)
    \/ InList(field_name, w.optional_uuids_value)
    \/ InList(field_name, w.optional_non_default_value)
    \/ InDict(field_name, w.optional_validators_value)

\* the record of one turn of the loop of lines 123-150
Resolved(field_name, r) ==
    [exc |-> r.exc, errors |-> r.errors,
     did |-> <<[field_name |-> field_name, did |-> r.did, errors |-> r.errors]>>]

\* one turn of the loop of lines 123-150: lines 142-150
ResolveField(w, request, field_name, validation_context) ==
    Resolved(field_name,
             _recurse_validate(request, field_name, validation_context,
                               FieldValidators(w, field_name), None,
                               IsOptional(w, field_name)))

\* lines 122-150: for field_name in field_names
RECURSIVE ResolveFields(_, _, _, _)
ResolveFields(w, request, field_names, validation_context) ==
    IF Len(field_names) = 0 THEN Returns(<<>>, <<>>)
    ELSE AndThen(ResolveField(w, request, field_names[1], validation_context),
                 ResolveFields(w, request, Tail(field_names), validation_context))

\* a context whose abort_with_status would return to validate_message
AbortReturns(r) ==
    IF r.exc # None
    THEN [exc |-> r.exc, errors |-> <<>>, resolved |-> r.did, aborts |-> <<>>]
    ELSE IF Len(r.errors) > 0
    THEN [exc |-> None, errors |-> r.errors, resolved |-> r.did,
          aborts |-> <<_create_rich_validation_error(r.errors)>>]
    ELSE [exc |-> None, errors |-> <<>>, resolved |-> r.did, aborts |-> <<>>]

\* validate_message: the errors of the request, and the abort that follows
\* when there is one; context.abort_with_status raises, as grpc's does
AbortIfErrors(r) ==
    IF r.exc # None
    THEN [exc |-> r.exc, errors |-> <<>>, resolved |-> r.did, aborts |-> <<>>]
    ELSE IF Len(r.errors) > 0
    THEN [exc |-> Some("abort"), errors |-> r.errors, resolved |-> r.did,
          aborts |-> <<_create_rich_validation_error(r.errors)>>]
    ELSE [exc |-> None, errors |-> <<>>, resolved |-> r.did, aborts |-> <<>>]

validate_message(w, request, validation_context) ==
    AbortIfErrors(ResolveFields(w, request, w.field_names, validation_context))

\* validate_wrapper(self, request, context) for a request that is one message:
\* what the call did, to the context (aborts) and to the handler (handled)
CallHandler(request, validation_context, v) ==
    [request |-> request,
     validation_context |-> validation_context,
     exc |-> v.exc,
     errors |-> v.errors,
     resolved |-> v.resolved,
     aborts |-> v.aborts,
     handled |-> IF v.exc = None THEN <<request>> ELSE <<>>]

validate_wrapper(w, request) ==
    CallHandler(request, ValidationContext(FALSE, None),
                validate_message(w, request, ValidationContext(FALSE, None)))

\* what `for field_name in field_names` (line 123) would leave of an iterator
Exhausted(field_names) == <<>>

\* what it leaves of field_names, which line 94 made a list
AfterFor(field_names) == field_names

\* the closure of decorating_function when validate_message has run: the
\* lists and dicts of the rules are read, and the lists it appends to
\* (errors, field_validators) are made anew by every call
ClosureAfter(w) == [w EXCEPT !.field_names = AfterFor(w.field_names)]

----------------------------------------------------------------------------
(* validate_args_decorator.py: validate_wrapper run by several threads.    *)
(* Every invocation has a frame of validate_message with its own locals;   *)
(* the threads may be switched between any two turns of the loop of line   *)
(* 123.                                                                     *)

\* validate_wrapper entered with one message: the frame at line 122
Frame(request) ==
    [request |-> request,
     validation_context |-> ValidationContext(FALSE, None),
     next |-> 1,
     r |-> Returns(<<>>, <<>>),
     outcome |-> None]

\* an errors list that would be one list for all the invocations
SharedErrors(frames, k) == frames[1].r

\* the errors list invocation k extends: a local of its own frame (line 122)
LocalErrors(frames, k) == frames[k].r

\* one turn of the loop of lines 123-150 in invocation k
Turn(w, frames, k) ==
    [frames EXCEPT
        ![k].r = AndThen(LocalErrors(frames, k),
                         ResolveField(w, frames[k].request, w.field_names[frames[k].next],
                                      frames[k].validation_context)),
        ![k].next = @ + 1]

\* the loop of invocation k is over: lines 151-153 and 166
Finish(frames, k) ==
    [frames EXCEPT
        ![k].outcome = Some(CallHandler(frames[k].request, frames[k].validation_context,
                                        AbortIfErrors(frames[k].r)))]

----------------------------------------------------------------------------
(* validate_args_decorator.py: validate_streaming, the generator the       *)
(* handler of a stream is called with.  Its record holds what it did: the  *)
(* next() calls made (requested), the elements taken from the input        *)
(* (pulled), their validations, and the elements yielded (delivered).      *)

\* the generator before the first next(): nothing of its body has run
NewGenerator(requests) ==
    [requests |-> requests, requested |-> 0, pulled |-> 0, validated |-> <<>>,
     delivered |-> <<>>, aborts |-> <<>>, exc |-> None, state |-> "running"]

\* a generator that would yield req whatever its validation found
YieldsUnvalidated(g, i, req, validation_context, v) ==
    [g EXCEPT !.requested = @ + 1,
              !.pulled = @ + 1,
              !.validated = Append(@, [streaming_message_index |-> i,
                                       request |-> req,
                                       validation_context |-> validation_context,
                                       exc |-> v.exc,
                                       errors |-> v.errors,
                                       resolved |-> v.resolved]),
              !.aborts = @ \o v.aborts,
              !.delivered = Append(@, req)]

\* lines 156-158 for element i: validate_message(req, ...) has done v, and
\* req is yielded unless v left it with an exception
Pulled(g, i, req, validation_context, v) ==
    [g EXCEPT !.requested = @ + 1,
              !.pulled = @ + 1,
              !.validated = Append(@, [streaming_message_index |-> i,
                                       request |-> req,
                                       validation_context |-> validation_context,
                                       exc |-> v.exc,
                                       errors |-> v.errors,
                                       resolved |-> v.resolved]),
              !.aborts = @ \o v.aborts,
              !.exc = v.exc,
              !.delivered = IF v.exc = None THEN Append(@, req) ELSE @,
              !.state = IF v.exc = None THEN "running" ELSE "raised"]

\* a generator that would count its elements from one
CountsFromOne(w, g) ==
    IF g.pulled >= Len(g.requests)
    THEN [g EXCEPT !.requested = @ + 1, !.state = "exhausted"]
    ELSE Pulled(g, g.pulled, g.requests[g.pulled + 1],
                ValidationContext(TRUE, Some(g.pulled + 1)),
                validate_message(w, g.requests[g.pulled + 1],
                                 ValidationContext(TRUE, Some(g.pulled + 1))))

\* next(generator): StopIteration when the input has no element left
generator_next(w, g) ==
    IF g.pulled >= Len(g.requests)
    THEN [g EXCEPT !.requested = @ + 1, !.state = "exhausted"]
    ELSE Pulled(g, g.pulled, g.requests[g.pulled + 1], ValidationContext(TRUE, Some(g.pulled)),
                validate_message(w, g.requests[g.pulled + 1],
                                 ValidationContext(TRUE, Some(g.pulled))))

\* a generator that would validate its first element before it is asked to
ValidatesAhead(w, requests) ==
    [generator_next(w, NewGenerator(requests)) EXCEPT !.requested = 0]

\* validate_streaming(requests, context): calling it runs nothing of its body
validate_streaming(w, requests) == NewGenerator(requests)

\* request_validator(request) of validate_streaming_args, line 143: the same
request_validator(w, requests) == NewGenerator(requests)

----------------------------------------------------------------------------
(* streaming_argument_validators.py, and validate_streaming_args_decorator *)
(* .py from decorating_function on: _recurse_validate has no presence test *)
(* and no ValidationContext, its errors are the reasons alone.             *)

MustBeSet == <<" ", "m", "u", "s", "t", " ", "b", "e", " ", "s", "e", "t">>

\* f" in message request index {message_index}"
InMessageRequestIndex(message_index) ==
    <<" ", "i", "n", " ", "m", "e", "s", "s", "a", "g", "e", " ", "r", "e", "q", "u", "e", "s", "t", " ", "i", "n", "d", "e", "x", " ">>
        \o IntToStr(message_index)

StreamingUUIDBytesValidator ==
    [cls |-> "StreamingUUIDBytesValidator", _pattern |-> <<>>, _field_name |-> <<>>]

StreamingNonDefaultValidator ==
    [cls |-> "StreamingNonDefaultValidator", _pattern |-> <<>>, _field_name |-> <<>>]

StreamingNonEmptyValidator ==
    [cls |-> "StreamingNonEmptyValidator", _pattern |-> <<>>, _field_name |-> <<>>]

StreamingRegexpValidator(pattern) ==
    [cls |-> "StreamingRegexpValidator", _pattern |-> pattern, _field_name |-> <<>>]

\* StreamingHasFieldValidator.check: getattr raises AttributeError, turned
\* into Exception, when value has no such field; HasField raises ValueError
\* for a field that is repeated or is no message
StreamingHasFieldValidator_check(self, message_index, name, value, field_descriptor) ==
    IF value.py # "Message" \/ ~HasDescriptorField(DescriptorOf(value), self._field_name)
    THEN CheckRaises("Exception")
    ELSE IF \/ fields_by_name(DescriptorOf(value), self._field_name).label = LABEL_REPEATED
            \/ fields_by_name(DescriptorOf(value), self._field_name).type # TYPE_MESSAGE
    THEN CheckRaises("ValueError")
    ELSE IF ~HasField(value, self._field_name)
    THEN ValidationResult(FALSE, Some(self._field_name \o MustBeSet
                                        \o InMessageRequestIndex(message_index)))
    ELSE ValidationResult(TRUE, None)

\* the check of the other validators: that of argument_validators.py, with
\* the index of the message at the end of the reason
streaming_check(v, message_index, name, value, field_descriptor) ==
    CASE v.cls = "StreamingHasFieldValidator" ->
            StreamingHasFieldValidator_check(v, message_index, name, value, field_descriptor)
      [] v.cls = "StreamingUUIDBytesValidator" ->
            IF ~HasLen(value) \/ Len(value.v) # UUIDBytesLen
            THEN ValidationResult(FALSE, Some(name \o MustBeValidUUID
                                                \o InMessageRequestIndex(message_index)))
            ELSE IF value.py # "bytes" THEN CheckRaises("AssertionError")
            ELSE ValidationResult(TRUE, None)
      [] v.cls = "StreamingNonDefaultValidator" ->
            IF field_descriptor.kind # "FieldDescriptor" THEN CheckRaises("AttributeError")
            ELSE IF ~PyEq(value, field_descriptor.default_value) THEN ValidationResult(TRUE, None)
            ELSE ValidationResult(FALSE, Some(name \o MustHaveNonDefault
                                                \o InMessageRequestIndex(message_index)))
      [] v.cls = "StreamingNonEmptyValidator" ->
            IF ~HasLen(value) THEN CheckRaises("TypeError")
            ELSE IF Len(value.v) > 0 THEN ValidationResult(TRUE, None)
            ELSE ValidationResult(FALSE, Some(name \o MustBeNonEmpty
                                                \o InMessageRequestIndex(message_index)))
      [] v.cls = "StreamingRegexpValidator" ->
            IF value.py # "str" THEN CheckRaises("TypeError")
            ELSE IF re_match(v._pattern, value.v) THEN ValidationResult(TRUE, None)
            ELSE ValidationResult(FALSE, Some(name \o MustMatchPattern \o v._pattern
                                                \o InMessageRequestIndex(message_index)))

\* lines 199-200 and 203-204: the reason a validation_result may add
AppendReason(validation_result) ==
    IF validation_result.exc # None THEN Raises(validation_result.exc[1], <<>>)
    ELSE IF ~validation_result.valid THEN Returns(<<validation_result.invalid_reason[1]>>, <<>>)
    ELSE Returns(<<>>, <<>>)

\* lines 197-200: for i, field_value_elem in enumerate(field_value), from index i
RECURSIVE StreamingCheckElems(_, _, _, _, _, _)
StreamingCheckElems(v, message_index, full_name, elems, i, field_descriptor) ==
    IF i >= Len(elems) THEN Returns(<<>>, <<>>)
    ELSE AndThen(AppendReason(streaming_check(v, message_index, Indexed(full_name, i),
                                              elems[i + 1], field_descriptor)),
                 StreamingCheckElems(v, message_index, full_name, elems, i + 1,
                                     field_descriptor))

\* lines 195-204: for v in validators
RECURSIVE StreamingApplyValidators(_, _, _, _, _, _)
StreamingApplyValidators(validators, message_index, field_name_raw, full_name, field_value, field_descriptor) ==
    IF Len(validators) = 0 THEN Returns(<<>>, <<>>)
    ELSE AndThen(IF endswith(field_name_raw) /\ field_descriptor.kind # "FieldDescriptor"
                 THEN Raises("AttributeError", <<>>)
                 ELSE IF endswith(field_name_raw) /\ field_descriptor.label = LABEL_REPEATED
                 THEN StreamingCheckElems(validators[1], message_index, full_name,
                                          field_value.v, 0, field_descriptor)
                 ELSE AppendReason(streaming_check(validators[1], message_index, full_name,
                                                   field_value, field_descriptor)),
                 StreamingApplyValidators(Tail(validators), message_index, field_name_raw,
                                          full_name, field_value, field_descriptor))

RECURSIVE StreamingRecurseValidate(_, _, _, _, _)
RECURSIVE StreamingRecurseElems(_, _, _, _, _, _)

\* lines 174-183: for i, elem in enumerate(field_value), from index i
StreamingRecurseElems(message_index, elems, i, remaining_name, full_name, validators) ==
    IF i >= Len(elems) THEN Returns(<<>>, <<>>)
    ELSE AndThen(StreamingRecurseValidate(message_index, elems[i + 1], remaining_name,
                                          validators, Some(Indexed(full_name, i))),
                 StreamingRecurseElems(message_index, elems, i + 1, remaining_name, full_name,
                                       validators))

\* lines 172-205, once field_value, field_descriptor and full_name are known
StreamingDescend(message_index, field_name_raw, remaining_fields, field_value, field_descriptor, full_name, validators) ==
    IF Len(remaining_fields) > 0
    THEN IF field_descriptor.kind # "FieldDescriptor" THEN Raises("AttributeError", <<>>)
         ELSE IF field_descriptor.label = LABEL_REPEATED
         THEN StreamingRecurseElems(message_index, field_value.v, 0,
                                    join(<<".">>, remaining_fields), full_name, validators)
         ELSE StreamingRecurseValidate(message_index, field_value,
                                       join(<<".">>, remaining_fields), validators,
                                       Some(full_name))
    ELSE StreamingApplyValidators(validators, message_index, field_name_raw, full_name,
                                  field_value, field_descriptor)

\* _recurse_validate of validate_streaming_args_decorator.py, lines 150-205
StreamingRecurseValidate(message_index, message, name, validators, leading_parts_name) ==
    IF message.py # "Message" THEN Raises("AttributeError", <<>>)
    ELSE IF leading_parts_name = None /\ rstrip(split(name)[1]) = <<>>
    THEN StreamingDescend(message_index, split(name)[1], NonEmptyParts(Tail(split(name))),
                          message, DescriptorOf(message), DescriptorOf(message).name,
                          validators)
    ELSE IF ~HasDescriptorField(DescriptorOf(message), rstrip(split(name)[1]))
    THEN Raises("KeyError", <<>>)
    ELSE StreamingDescend(message_index, split(name)[1], NonEmptyParts(Tail(split(name))),
                          getattr(message, rstrip(split(name)[1])),
                          fields_by_name(DescriptorOf(message), rstrip(split(name)[1])),
                          IF leading_parts_name = None THEN rstrip(split(name)[1])
                          ELSE leading_parts_name[1] \o <<".">> \o rstrip(split(name)[1]),
                          validators)

\* lines 120-130: the validators of field_name
StreamingFieldValidators(w, field_name) ==
    (IF InList(field_name, w.uuids_value \o w.optional_uuids_value)
     THEN <<StreamingUUIDBytesValidator>> ELSE <<>>)
    \o (IF InList(field_name, w.non_empty_value \o w.optional_non_empty_value)
        THEN <<StreamingNonEmptyValidator>> ELSE <<>>)
    \o (IF InList(field_name, w.non_default_value \o w.optional_non_default_value)
        THEN <<StreamingNonDefaultValidator>> ELSE <<>>)
    \o (IF InList(field_name, keys(w.validators_value) \o keys(w.optional_validators_value))
        THEN get(merge(w.validators_value, w.optional_validators_value), field_name)
        ELSE <<>>)

\* lines 117-134: for field_name in field_names
RECURSIVE StreamingResolveFields(_, _, _, _)
StreamingResolveFields(w, message_index, request, field_names) ==
    IF Len(field_names) = 0 THEN Returns(<<>>, <<>>)
    ELSE AndThen(StreamingRecurseValidate(message_index, request, field_names[1],
                                          StreamingFieldValidators(w, field_names[1]), None),
                 StreamingResolveFields(w, message_index, request, Tail(field_names)))

\* lines 135-137: context.abort(grpc.StatusCode.INVALID_ARGUMENT, details),
\* which raises, as grpc's does
ContextAbort(r) ==
    IF r.exc # None THEN [exc |-> r.exc, errors |-> <<>>, resolved |-> <<>>, aborts |-> <<>>]
    ELSE IF Len(r.errors) > 0
    THEN [exc |-> Some("abort"), errors |-> r.errors, resolved |-> <<>>,
          aborts |-> <<[code |-> "INVALID_ARGUMENT",
                        details |-> Take(join(<<",", " ">>, r.errors), MaxMessageLen)]>>]
    ELSE [exc |-> None, errors |-> <<>>, resolved |-> <<>>, aborts |-> <<>>]

\* validate_message(message_index, request) of validate_streaming_args
StreamingValidateMessage(w, message_index, request) ==
    ContextAbort(StreamingResolveFields(w, message_index, request, w.field_names))

\* next(request_validator(request)): lines 139-141
request_validator_next(w, g) ==
    IF g.pulled >= Len(g.requests)
    THEN [g EXCEPT !.requested = @ + 1, !.state = "exhausted"]
    ELSE Pulled(g, g.pulled, g.requests[g.pulled + 1], None,
                StreamingValidateMessage(w, g.pulled, g.requests[g.pulled + 1]))

----------------------------------------------------------------------------
(* The requests and the configurations of the model.                       *)

StringValue(chars) ==
    Message("StringValue", IF chars = <<>> THEN NoFields ELSE f_value :> PyStr(chars))

BytesValue(bytes) ==
    Message("BytesValue", IF bytes = <<>> THEN NoFields ELSE f_value :> PyBytes(bytes))

PlanetValue(planet) ==
    Message("PlanetValue", IF planet = PLANET_INVALID THEN NoFields ELSE f_value :> PyInt(planet))

\* the fields of a message from optional values: a None is a field not set
Fields(names, values) ==
    [n \in {names[i] : i \in {k \in 1..Len(names) : values[k] # None}} |->
        values[CHOOSE i \in 1..Len(names) : names[i] = n][1]]

\* a repeated field from its elements: an empty list is a field not set
Repeated(elems) == IF elems = <<>> THEN None ELSE Some(PyList(elems))

Optional(S) == {None} \cup {Some(x) : x \in S}

Lists(S, n) == UNION {[1..k -> S] : k \in 0..n}

Names == {StringValue(<<>>), StringValue(<<"a">>)}

Points == {Message("Point", Fields(<<f_name>>, <<n>>)) : n \in Optional(Names)}

Rectangles ==
    {Message("Rectangle", Fields(<<f_lo, f_hi>>, <<lo, None>>)) :
        lo \in Optional({Message("Point", Fields(<<f_name>>, <<n>>)) :
                            n \in Optional({StringValue(<<"a">>)})})}

\* uuid.uuid4().bytes, and b""
UUIDs == {BytesValue([i \in 1..UUIDBytesLen |-> 0]), BytesValue(<<>>)}

Areas ==
    {Message("Area", Fields(<<f_message, f_rectangle, f_uuid>>, <<m, r, u>>)) :
        m \in Optional({StringValue(<<>>), StringValue(<<"1">>)}),
        r \in Optional(Rectangles),
        u \in Optional(UUIDs)}

Paths ==
    {Message("Path", Fields(<<f_points>>, <<Repeated(ps)>>)) : ps \in Lists(Points, MaxElems)}

Routes ==
    {Message("Route", Fields(<<f_planet>>, <<p>>)) :
        p \in Optional({PlanetValue(PLANET_INVALID), PlanetValue(PLANET_EARTH)})}
    \cup {Message("Route", Fields(<<f_tags>>, <<Repeated(ts)>>)) :
            ts \in Lists({PyStr(<<>>), PyStr(<<"a">>)}, MaxElems)}
    \cup {Message("Route", Fields(<<f_name, f_path>>, <<n, pa>>)) :
            n \in Optional(Names),
            pa \in Optional({Message("Path", Fields(<<f_points>>, <<Repeated(ps)>>)) :
                                ps \in {<<>>, <<Message("Point", NoFields)>>}})}

Requests == Areas \cup Paths \cup Routes

\* a.b.c from <<a, b, c>>
Dotted(names) == join(<<".">>, names)

Marked(name) == name \o <<"[", "]">>

\* one entry of a configuration: a path in a bucket (with its validator, in
\* validators and optional_validators)
Rule(bucket, field_path) ==
    [bucket |-> bucket, path |-> field_path, validator |-> RegexpValidator(DigitsPattern)]

ListBuckets ==
    {"has", "uuids", "non_default", "non_empty", "optional_uuids", "optional_non_empty",
     "optional_non_default"}

DictBuckets == {"validators", "optional_validators"}

\* the list (dict) a bucket gets from the entries of a configuration
RECURSIVE BucketList(_, _)
BucketList(rules, bucket) ==
    IF Len(rules) = 0 THEN <<>>
    ELSE (IF rules[1].bucket = bucket THEN <<rules[1].path>> ELSE <<>>)
            \o BucketList(Tail(rules), bucket)

RECURSIVE BucketDict(_, _)
BucketDict(rules, bucket) ==
    IF Len(rules) = 0 THEN <<>>
    ELSE LET rest == BucketDict(SubSeq(rules, 1, Len(rules) - 1), bucket)
             last == rules[Len(rules)]
         IN  IF last.bucket = bucket THEN setitem(rest, last.path, last.validator) ELSE rest

AllBuckets == ListBuckets \cup DictBuckets

\* the arguments of a decorator call: a bucket without entries is omitted
\* (None), or passed empty when it is in passedEmpty
Args(rules, passedEmpty) ==
    [b \in AllBuckets |->
        LET entries == IF b \in DictBuckets THEN BucketDict(rules, b) ELSE BucketList(rules, b)
        IN  IF entries = <<>> /\ b \notin passedEmpty THEN None ELSE Some(entries)]

\* the paths the buckets of a configuration name, bucket by bucket
ArgPaths(args, bucket) ==
    IF args[bucket] = None THEN <<>>
    ELSE IF bucket \in DictBuckets THEN keys(args[bucket][1]) ELSE args[bucket][1]

\* the entries the configurations of Spec are made of
RulePool ==
    {Rule("has", Dotted(<<f_rectangle, f_lo, f_name>>)),
     Rule("has", Dotted(<<f_points, f_name>>)),
     Rule("has", Dotted(<<f_message, f_value>>)),
     Rule("uuids", Dotted(<<f_uuid, f_value>>)),
     Rule("optional_uuids", Dotted(<<f_uuid, f_value>>)),
     Rule("non_empty", Dotted(<<f_message, f_value>>)),
     Rule("non_empty", Dotted(<<f_points, f_name, f_value>>)),
     Rule("non_empty", f_tags),
     Rule("non_empty", Marked(f_tags)),
     Rule("non_empty", Marked(Dotted(<<f_message, f_value>>))),
     Rule("optional_non_empty", Dotted(<<f_message, f_value>>)),
     Rule("optional_non_empty", Dotted(<<f_points, f_name, f_value>>)),
     Rule("non_default", Dotted(<<f_planet, f_value>>)),
     Rule("optional_non_default", Dotted(<<f_planet, f_value>>)),
     Rule("validators", Dotted(<<f_message, f_value>>)),
     Rule("validators", Marked(f_tags)),
     Rule("optional_validators", Dotted(<<f_message, f_value>>)),
     Rule("non_empty", <<".">> \o Dotted(<<f_message, f_value>>)),
     Rule("uuids", <<".">>),
     [bucket |-> "validators", path |-> <<".">>, validator |-> RouteValidator]}

\* the place of a bucket in the signature
BucketIndex(bucket) == CHOOSE i \in 1..Len(Buckets) : Buckets[i] = bucket

\* the lists of up to n entries, bucket by bucket: the order of two entries
\* matters to Args only when they are in the same bucket
RuleListsOf(pool, n) ==
    {rules \in Lists(pool, n) :
        \A i \in 1..(Len(rules) - 1) :
            BucketIndex(rules[i].bucket) <= BucketIndex(rules[i + 1].bucket)}

\* the configurations of Spec: up to MaxRules entries, the other buckets omitted
RuleLists == RuleListsOf(RulePool, MaxRules)

\* the paths the configurations of SpecReg are made of: two the grammar
\* accepts, and a digit first, a symbol, a marker that is not last, a newline
RegPaths ==
    {Dotted(<<f_uuid, f_value>>), <<".">>,
     <<"0">>, <<"-">>, Dotted(<<Marked(f_points), f_name>>), f_tags \o <<"\n">>}

RegRulePool == {Rule(b, p) : b \in AllBuckets, p \in RegPaths}

\* the configurations of SpecReg: up to MaxRegRules entries in any buckets
RegRuleLists == RuleListsOf(RegRulePool, MaxRegRules)

\* every way to pass empty the buckets of a configuration without entries;
\* with entries, the other buckets are all omitted or all passed empty
SomePassedEmpty(rules) == IF rules = <<>> THEN SUBSET AllBuckets ELSE {{}, AllBuckets}

\* the buckets a configuration passes empty: none of them in Spec
PassedEmpty(rules, passEmpty) == IF passEmpty THEN SomePassedEmpty(rules) ELSE {{}}

----------------------------------------------------------------------------
(* Spec: a handler is decorated with validate_args, and called with one    *)
(* message at a time.                                                      *)

Init ==
    /\ config = None
    /\ decorator = None
    /\ raised = None
    /\ wrapper = None
    /\ call = None
    /\ arg_path = None
    /\ is_valid = None
    /\ _use_rich_grpc_errors = FALSE
    /\ previous = None
    /\ stream = None
    /\ invocations = <<>>
    /\ status = None
    /\ caller_validators = None
    /\ handlers = <<>>

\* what a decorator call leaves: the ValueError, or the wrapper
Decorated(args, name, result) ==
    /\ config' = Some(args)
    /\ decorator' = Some(name)
    /\ raised' = result.raised
    /\ wrapper' = result.wrapper

DecoratedBy(name, args) ==
    IF name = "validate_args" THEN Decorated(args, name, validate_args(args))
    ELSE Decorated(args, name, validate_streaming_args(args))

\* @validate_args(**args) on a handler
ValidateArgs(R, passEmpty) ==
    /\ decorator = None
    /\ \E rules \in R : \E e \in PassedEmpty(rules, passEmpty) :
        DecoratedBy("validate_args", Args(rules, e))
    /\ UNCHANGED <<call, arg_path, is_valid, _use_rich_grpc_errors, previous, stream, invocations,
                   status, caller_validators, handlers>>

\* @validate_streaming_args(**args) on a handler
ValidateStreamingArgs(R, passEmpty) ==
    /\ decorator = None
    /\ \E rules \in R : \E e \in PassedEmpty(rules, passEmpty) :
        DecoratedBy("validate_streaming_args", Args(rules, e))
    /\ UNCHANGED <<call, arg_path, is_valid, _use_rich_grpc_errors, previous, stream, invocations,
                   status, caller_validators, handlers>>

\* the decorated handler is called with one message
Call ==
    /\ wrapper # None
    /\ wrapper[1].decorator = "validate_args"
    /\ call = None
    /\ \E request \in Requests : call' = Some(validate_wrapper(wrapper[1], request))
    /\ UNCHANGED <<config, decorator, raised, wrapper, arg_path, is_valid, _use_rich_grpc_errors,
                   previous, stream, invocations, status, caller_validators,
                   handlers>>

\* the call is over: nothing of it is kept
Return ==
    /\ call # None
    /\ call' = None
    /\ UNCHANGED <<config, decorator, raised, wrapper, arg_path, is_valid, _use_rich_grpc_errors,
                   previous, stream, invocations, status, caller_validators,
                   handlers>>

\* ArgumentValidatorConfig.set_rich_grpc_errors(enabled), between two calls
set_rich_grpc_errors ==
    /\ call = None
    /\ \E enabled \in BOOLEAN : _use_rich_grpc_errors' = enabled
    /\ UNCHANGED <<config, decorator, raised, wrapper, call, arg_path, is_valid, previous,
                   stream, invocations, status, caller_validators, handlers>>

Next ==
    \/ ValidateArgs(RuleLists, FALSE)
    \/ set_rich_grpc_errors
    \/ Call
    \/ Return

Spec == Init /\ [][Next]_vars

----------------------------------------------------------------------------
(* SpecReg: one call of either decorator, over the configurations of       *)
(* RegRuleLists.                                                           *)

NextReg ==
    \/ ValidateArgs(RegRuleLists, TRUE)
    \/ ValidateStreamingArgs(RegRuleLists, TRUE)

SpecReg == Init /\ [][NextReg]_vars

----------------------------------------------------------------------------
(* SpecStream: a handler is decorated with validate_args, and called with  *)
(* a stream; the handler asks for the elements one by one, and may return  *)
(* before the end of the stream.                                           *)

\* the elements of the streams
StreamElems ==
    {Message("Area", Fields(<<f_message>>, <<m>>)) :
        m \in Optional({StringValue(<<>>), StringValue(<<"1">>)})}
    \cup {Message("Path", Fields(<<f_points>>, <<Repeated(<<p, p>>)>>)) : p \in Points}

Streams == Lists(StreamElems, MaxStreamLen)

\* the elements of the streams a handler decorated with validate_streaming_args
\* is called with: areas with and without a message, a uuid, a rectangle
StreamingArgsElems ==
    {Message("Area", Fields(<<f_message, f_rectangle, f_uuid>>, <<m, r, u>>)) :
        m \in Optional({StringValue(<<"1">>)}),
        r \in Optional({Message("Rectangle", NoFields)}),
        u \in Optional({BytesValue(<<>>)})}

\* the streams the handler a decorator made is called with
StreamsOf(w) ==
    IF w.decorator = "validate_args" THEN Streams
    ELSE Lists(StreamingArgsElems, MaxStreamLen)

\* the entries the configurations of SpecStream are made of
StreamRulePool ==
    {Rule("has", Dotted(<<f_message, f_value>>)),
     Rule("has", Dotted(<<f_points, f_name>>)),
     Rule("non_empty", Dotted(<<f_message, f_value>>)),
     Rule("optional_non_empty", Dotted(<<f_message, f_value>>)),
     Rule("validators", Dotted(<<f_message, f_value>>))}

StreamRuleLists == RuleListsOf(StreamRulePool, MaxRules)

\* validate_wrapper(self, request, context) for a request that is a stream,
\* of either decorator: the handler is called with the generator
CallStream ==
    /\ wrapper # None
    /\ stream = None
    /\ \E requests \in StreamsOf(wrapper[1]) :
        stream' = Some(IF wrapper[1].decorator = "validate_args"
                       THEN validate_streaming(wrapper[1], requests)
                       ELSE request_validator(wrapper[1], requests))
    /\ UNCHANGED <<config, decorator, raised, wrapper, call, arg_path, is_valid,
                   _use_rich_grpc_errors, previous, invocations, status,
                   caller_validators, handlers>>

\* the handler asks the generator for the next element
HandlerNext ==
    /\ stream # None
    /\ stream[1].state = "running"
    /\ stream' = Some(IF wrapper[1].decorator = "validate_args"
                      THEN generator_next(wrapper[1], stream[1])
                      ELSE request_validator_next(wrapper[1], stream[1]))
    /\ UNCHANGED <<config, decorator, raised, wrapper, call, arg_path, is_valid,
                   _use_rich_grpc_errors, previous, invocations, status,
                   caller_validators, handlers>>

\* the handler returns, at the end of the stream or before it
HandlerReturns ==
    /\ stream # None
    /\ stream[1].state \in {"running", "exhausted"}
    /\ stream' = Some([stream[1] EXCEPT !.state = "returned"])
    /\ UNCHANGED <<config, decorator, raised, wrapper, call, arg_path, is_valid,
                   _use_rich_grpc_errors, previous, invocations, status,
                   caller_validators, handlers>>

\* the call is over: the handler returned, or the exception left it
StreamReturn ==
    /\ stream # None
    /\ stream[1].state \in {"returned", "raised"}
    /\ stream' = None
    /\ UNCHANGED <<config, decorator, raised, wrapper, call, arg_path, is_valid,
                   _use_rich_grpc_errors, previous, invocations, status,
                   caller_validators, handlers>>

NextStream ==
    \/ ValidateArgs(StreamRuleLists, FALSE)
    \/ CallStream
    \/ HandlerNext
    \/ HandlerReturns
    \/ StreamReturn

SpecStream == Init /\ [][NextStream]_vars

----------------------------------------------------------------------------
(* SpecContext: the handler validate_args decorated is called with one     *)
(* message or with a stream, one invocation at a time.                      *)

\* validate_wrapper(self, request, context), lines 160-166: the request is an
\* Iterable or one message
CallWrapper ==
    /\ wrapper # None
    /\ call = None
    /\ stream = None
    /\ \/ \E requests \in Streams :
            /\ stream' = Some(validate_streaming(wrapper[1], requests))
            /\ UNCHANGED call
       \/ \E request \in StreamElems :
            /\ call' = Some(validate_wrapper(wrapper[1], request))
            /\ UNCHANGED stream
    /\ UNCHANGED <<config, decorator, raised, wrapper, arg_path, is_valid,
                   _use_rich_grpc_errors, previous, invocations, status,
                   caller_validators, handlers>>

NextContext ==
    \/ ValidateArgs(StreamRuleLists, FALSE)
    \/ CallWrapper
    \/ Return
    \/ HandlerNext
    \/ HandlerReturns
    \/ StreamReturn

SpecContext == Init /\ [][NextContext]_vars

----------------------------------------------------------------------------
(* SpecStreamingArgs: a handler is decorated with validate_streaming_args, *)
(* and called with a stream.                                               *)

StreamingRule(bucket, field_path, validator) ==
    [bucket |-> bucket, path |-> field_path, validator |-> validator]

\* the entries of its configurations: fields that must be set, two of them
\* of the root and two of the rectangle, and validators of their own for the
\* root, the rectangle and the value of the message
StreamingRulePool ==
    {StreamingRule("has", f_message, None),
     StreamingRule("has", f_uuid, None),
     StreamingRule("has", Dotted(<<f_rectangle, f_lo>>), None),
     StreamingRule("has", Dotted(<<f_rectangle, f_hi>>), None),
     StreamingRule("non_empty", Dotted(<<f_uuid, f_value>>), None),
     StreamingRule("optional_uuids", Dotted(<<f_uuid, f_value>>), None),
     StreamingRule("optional_non_empty", Dotted(<<f_message, f_value>>), None),
     StreamingRule("validators", <<".">>, StreamingHasFieldValidator(f_rectangle)),
     StreamingRule("validators", Dotted(<<f_message, f_value>>),
                   StreamingRegexpValidator(DigitsPattern))}

StreamingRuleLists == RuleListsOf(StreamingRulePool, MaxRules)

NextStreamingArgs ==
    \/ ValidateStreamingArgs(StreamingRuleLists, FALSE)
    \/ CallStream
    \/ HandlerNext
    \/ HandlerReturns
    \/ StreamReturn

SpecStreamingArgs == Init /\ [][NextStreamingArgs]_vars

----------------------------------------------------------------------------
(* SpecAgain: the decorated handler is called with one message after       *)
(* another; `previous` is the call before the one under way.               *)

CallAgain ==
    /\ wrapper # None
    /\ wrapper[1].decorator = "validate_args"
    /\ call = None
    /\ \E request \in StreamElems : call' = Some(validate_wrapper(wrapper[1], request))
    /\ wrapper' = Some(ClosureAfter(wrapper[1]))
    /\ UNCHANGED <<config, decorator, raised, arg_path, is_valid, _use_rich_grpc_errors,
                   previous, stream, invocations, status, caller_validators,
                   handlers>>

ReturnAgain ==
    /\ call # None
    /\ previous' = call
    /\ call' = None
    /\ UNCHANGED <<config, decorator, raised, wrapper, arg_path, is_valid,
                   _use_rich_grpc_errors, stream, invocations, status,
                   caller_validators, handlers>>

NextAgain ==
    \/ ValidateArgs(StreamRuleLists, FALSE)
    \/ CallAgain
    \/ ReturnAgain

SpecAgain == Init /\ [][NextAgain]_vars

----------------------------------------------------------------------------
(* SpecConc: threads call the decorated handler, each with a message of    *)
(* its own, and run in any interleaving.                                   *)

\* a thread calls the handler
Invoke ==
    /\ wrapper # None
    /\ wrapper[1].decorator = "validate_args"
    /\ Len(invocations) < MaxInvocations
    /\ \E request \in StreamElems : invocations' = Append(invocations, Frame(request))
    /\ UNCHANGED <<config, decorator, raised, wrapper, call, arg_path, is_valid,
                   _use_rich_grpc_errors, previous, stream, status,
                   caller_validators, handlers>>

\* the thread of invocation k runs one turn of the loop
TurnOf(k) ==
    /\ invocations[k].outcome = None
    /\ invocations[k].r.exc = None
    /\ invocations[k].next <= Len(wrapper[1].field_names)
    /\ invocations' = Turn(wrapper[1], invocations, k)
    /\ UNCHANGED <<config, decorator, raised, wrapper, call, arg_path, is_valid,
                   _use_rich_grpc_errors, previous, stream, status,
                   caller_validators, handlers>>

\* the thread of invocation k leaves the loop, by its end or by an exception
FinishOf(k) ==
    /\ invocations[k].outcome = None
    /\ invocations[k].r.exc # None \/ invocations[k].next > Len(wrapper[1].field_names)
    /\ invocations' = Finish(invocations, k)
    /\ UNCHANGED <<config, decorator, raised, wrapper, call, arg_path, is_valid,
                   _use_rich_grpc_errors, previous, stream, status,
                   caller_validators, handlers>>

NextConc ==
    \/ ValidateArgs(StreamRuleLists, FALSE)
    \/ Invoke
    \/ \E k \in 1..Len(invocations) : TurnOf(k)
    \/ \E k \in 1..Len(invocations) : FinishOf(k)

SpecConc == Init /\ [][NextConc]_vars

----------------------------------------------------------------------------
(* SpecPath: is_valid_field_path applied to every short string.            *)

\* the characters the strings of SpecPath are made of
Alphabet == {"a", "B", "0", "_", ".", "[", "]", "-", "\n"}

Strings(n) == UNION {[1..k -> Alphabet] : k \in 0..n}

InitPath ==
    /\ arg_path \in Strings(MaxPathLen)
    /\ is_valid = None
    /\ config = None /\ decorator = None /\ raised = None /\ wrapper = None /\ call = None
    /\ _use_rich_grpc_errors = FALSE /\ previous = None /\ stream = None
    /\ invocations = <<>> /\ status = None /\ caller_validators = None /\ handlers = <<>>

CallIsValidFieldPath ==
    /\ is_valid = None
    /\ is_valid' = Some(is_valid_field_path(arg_path))
    /\ UNCHANGED <<config, decorator, raised, wrapper, call, arg_path, _use_rich_grpc_errors,
                   previous, stream, invocations, status, caller_validators,
                   handlers>>

NextPath == CallIsValidFieldPath

SpecPath == InitPath /\ [][NextPath]_vars

\* identifier = letter followed by letters, digits or underscores
IsIdentifier(w) ==
    /\ Len(w) >= 1
    /\ w[1] \in Letter
    /\ \A k \in 2..Len(w) : w[k] \in IdentChar

\* the grammar of field paths: "." or [.] (identifier .)* identifier [[]]
InGrammar(p) ==
    \/ p = <<".">>
    \/ LET q == IF Len(p) >= 1 /\ p[1] = "." THEN Tail(p) ELSE p
           r == IF endswith(q) THEN SubSeq(q, 1, Len(q) - 2) ELSE q
           parts == split(r)
       IN  \A i \in 1..Len(parts) : IsIdentifier(parts[i])

\* C10: is_valid_field_path(arg_path) is true exactly when path is in the grammar
\* of field paths; every other string is rejected.
C10_ValidIffInGrammar == is_valid # None => (is_valid[1] <=> InGrammar(arg_path))

----------------------------------------------------------------------------
(* _create_rich_validation_error on lists of long violations.              *)

\* c * n
Fill(c, n) == [i \in 1..n |-> c]

\* reasons about as long as the summary string may get, each of its own letter
LongReasons ==
    {Fill("a", 1), Fill("b", MaxMessageLen \div 2 - 1), Fill("c", MaxMessageLen \div 2),
     Fill("d", MaxMessageLen - 2), Fill("e", MaxMessageLen + 1)}

\* the violations validate_message may hand over
ViolationPool ==
    {_Error(field_name, reason) : field_name \in {<<"x">>, <<"t", "a", "g", "s", "[", "0", "]">>},
                                  reason \in LongReasons}

\* validate_message or a test calls _create_rich_validation_error(errors)
CreateRichValidationError ==
    /\ status = None
    /\ \E errors \in Lists(ViolationPool, MaxViolations) :
        /\ Len(errors) > 0
        /\ status' = Some([errors |-> errors, status |-> _create_rich_validation_error(errors)])
    /\ UNCHANGED <<config, decorator, raised, wrapper, call, arg_path, is_valid,
                   _use_rich_grpc_errors, previous, stream, invocations,
                   caller_validators, handlers>>

NextStatus == CreateRichValidationError

SpecStatus == Init /\ [][NextStatus]_vars

----------------------------------------------------------------------------
(* SpecShared: the caller decorates several handlers, and passes them the   *)
(* same validators dict.                                                    *)

\* the dicts the caller owns
CallerDicts ==
    {<<>>,
     <<<<Dotted(<<f_message, f_value>>), StreamingRegexpValidator(DigitsPattern)>>>>,
     <<<<f_message, StreamingRegexpValidator(DigitsPattern)>>>>,
     <<<<<<".">>, StreamingRegexpValidator(DigitsPattern)>>>>}

\* the has lists the caller passes
CallerHasLists ==
    {None, Some(<<Dotted(<<f_message, f_value>>)>>), Some(<<f_uuid>>)}

\* validators or dict(): the caller's dict itself unless it is None or empty
IsCallersDict(validators) == validators # None /\ validators[1] # <<>>

\* the caller's dict d when a decorator has returned or raised: lines 77-85 of
\* validate_streaming_args set the has validators in validators_value
CallerDictAfter(name, args, d) ==
    IF name = "validate_streaming_args" /\ ~AllArgsNone(args) /\ IsCallersDict(args.validators)
    THEN AddHasValidators(args.validators[1], OrEmpty(args.has))
    ELSE d

\* the closure of a handler as it is now: validators_value is the caller's
\* dict where the decorator took it
ClosureNow(h) ==
    IF h.aliased THEN [h.closure EXCEPT !.validators_value = caller_validators[1]]
    ELSE h.closure

\* the validators of field_name in closure w, of either decorator
ValidatorsOf(w, field_name) ==
    IF w.decorator = "validate_args" THEN FieldValidators(w, field_name)
    ELSE StreamingFieldValidators(w, field_name)

InitShared ==
    /\ caller_validators \in {Some(d) : d \in CallerDicts}
    /\ handlers = <<>>
    /\ config = None /\ decorator = None /\ raised = None /\ wrapper = None /\ call = None
    /\ arg_path = None /\ is_valid = None /\ _use_rich_grpc_errors = FALSE
    /\ previous = None /\ stream = None /\ invocations = <<>> /\ status = None

\* @validate_args(has=..., validators=d) or @validate_streaming_args(has=...,
\* validators=d) on one more handler, d the caller's dict or omitted
DecorateAnother ==
    /\ Len(handlers) < MaxHandlers
    /\ \E name \in {"validate_args", "validate_streaming_args"} :
       \E has \in CallerHasLists : \E validators \in {None, caller_validators} :
        LET args == [b \in AllBuckets |->
                        IF b = "has" THEN has ELSE IF b = "validators" THEN validators ELSE None]
            result == IF name = "validate_args" THEN validate_args(args)
                      ELSE validate_streaming_args(args)
        IN  /\ Decorated(args, name, result)
            /\ caller_validators' = Some(CallerDictAfter(name, args, caller_validators[1]))
            /\ handlers' =
                    IF result.wrapper = None THEN handlers
                    ELSE Append(handlers, [closure |-> result.wrapper[1],
                                           passed |-> validators,
                                           aliased |-> IsCallersDict(validators)])
    /\ UNCHANGED <<call, arg_path, is_valid, _use_rich_grpc_errors, previous, stream,
                   invocations, status>>

NextShared == DecorateAnother

SpecShared == InitShared /\ [][NextShared]_vars

----------------------------------------------------------------------------
(* Properties of a call of the decorated handler (Spec).  They read the    *)
(* configuration from config, as the caller passed it, and what the call   *)
(* did from call.                                                          *)

\* validate_message ran to its end: nothing but the abort left it
Validated == call # None /\ call[1].exc \in {None, Some("abort")}

\* the violations of the request: those of every path, in the order resolved
RECURSIVE Violations(_)
Violations(resolved) ==
    IF resolved = <<>> THEN <<>> ELSE resolved[1].errors \o Violations(Tail(resolved))

OptionalBuckets ==
    {"optional_uuids", "optional_non_empty", "optional_non_default", "optional_validators"}

MandatoryBuckets == {"has", "uuids", "non_empty", "non_default", "validators"}

\* the configuration lists path p in one of these buckets
ListedIn(p, buckets) == \E b \in buckets : InList(p, ArgPaths(config[1], b))

\* the paths of the configuration, in rule order
ConfiguredPaths ==
    chain(<<ArgPaths(config[1], "has"), ArgPaths(config[1], "uuids"),
            ArgPaths(config[1], "optional_uuids"), ArgPaths(config[1], "non_empty"),
            ArgPaths(config[1], "optional_non_empty"), ArgPaths(config[1], "non_default"),
            ArgPaths(config[1], "optional_non_default"), ArgPaths(config[1], "validators"),
            ArgPaths(config[1], "optional_validators")>>)

\* the leaf validators the configuration gives path p
ConfiguredValidators(p) ==
    (IF ListedIn(p, {"uuids", "optional_uuids"}) THEN {UUIDBytesValidator} ELSE {})
    \cup (IF ListedIn(p, {"non_empty", "optional_non_empty"}) THEN {NonEmptyValidator} ELSE {})
    \cup (IF ListedIn(p, {"non_default", "optional_non_default"})
          THEN {NonDefaultValidator} ELSE {})
    \cup {OrEmpty(config[1][x[1]])[x[2]][2] :
            x \in {y \in DictBuckets \X (1..Len(ConfiguredPaths)) :
                    /\ y[2] <= Len(OrEmpty(config[1][y[1]]))
                    /\ OrEmpty(config[1][y[1]])[y[2]][1] = p}}

\* s begins with prefix
StartsWith(s, prefix) == Len(s) >= Len(prefix) /\ SubSeq(s, 1, Len(prefix)) = prefix

\* the qualified name of element i of a repeated field
ElementName(name, i) == name \o <<"[">> \o IntToStr(i) \o <<"]">>

\* the members of a set of naturals, ascending
Ascending(S) ==
    [j \in 1..Cardinality(S) |-> CHOOSE i \in S : Cardinality({x \in S : x < i}) = j - 1]

\* the elements of the repeated field the path of a resolution starts with
\* (none when it starts with another field)
HeadElems(request, field_name) ==
    LET head == rstrip(split(field_name)[1])
    IN  IF head \in DOMAIN request.v.fields /\ request.v.fields[head].py = "list"
        THEN request.v.fields[head].v ELSE <<>>

\* a presence test of this resolution found its field unset
FoundUnset(e) == \E j \in 1..Len(e.did) : e.did[j].op = "HasField" /\ ~e.did[j].ok

\* the tests of a resolution that failed: every check that was not valid, and
\* every presence test that found a field of a path that is not optional unset
Failing(e) ==
    LET Failed(d) ==
            ~d.ok /\ (d.op = "HasField" => ~ListedIn(e.field_name, OptionalBuckets))
    IN  SelectSeq(e.did, Failed)

\* C1: when the validation of a single request yields a violation, the call is
\* aborted exactly once and the handler is never invoked; when it yields none,
\* abort is never called and the handler is invoked exactly once, with the
\* request it was called with.
C1_AbortOnceOrHandleOnce ==
    Validated =>
        IF Violations(call[1].resolved) # <<>>
        THEN Len(call[1].aborts) = 1 /\ call[1].handled = <<>>
        ELSE call[1].aborts = <<>> /\ call[1].handled = <<call[1].request>>

C1_Aborted ==
    /\ Validated
    /\ Violations(call[1].resolved) # <<>>
    /\ Len(call[1].aborts) = 1
    /\ call[1].handled = <<>>

\* C2: validation never stops at the first violation.  Every configured path
\* is resolved, in rule order; every element of a repeated field on a path is
\* visited; every leaf that is checked is checked by every validator of its
\* path; and the rejection holds one entry for every failing test, in order.
C2_EveryViolationReported ==
    Validated =>
        /\ [i \in 1..Len(call[1].resolved) |-> call[1].resolved[i].field_name]
                = ConfiguredPaths
        /\ \A i \in 1..Len(call[1].resolved) :
            LET e == call[1].resolved[i]
                elems == HeadElems(call[1].request, e.field_name)
                head == rstrip(split(e.field_name)[1])
            IN  /\ \A j \in 1..Len(e.did) :
                    e.did[j].op = "check" =>
                        \A v \in ConfiguredValidators(e.field_name) :
                            \E k \in 1..Len(e.did) :
                                /\ e.did[k].op = "check"
                                /\ e.did[k].name = e.did[j].name
                                /\ e.did[k].validator = Some(v)
                /\ (Len(split(e.field_name)) > 1
                        \/ (e.field_name = Marked(head)
                                /\ ConfiguredValidators(e.field_name) # {}))
                    => \A n \in 0..(Len(elems) - 1) :
                        \E k \in 1..Len(e.did) :
                            StartsWith(e.did[k].name, ElementName(head, n))
                /\ [j \in 1..Len(e.errors) |-> e.errors[j].field_name]
                        = [j \in 1..Len(Failing(e)) |-> Failing(e)[j].name]
        /\ Violations(call[1].resolved) # <<>> =>
            call[1].aborts[1].details[1].field_violations
                = [j \in 1..Len(Violations(call[1].resolved)) |->
                    [field |-> Violations(call[1].resolved)[j].field_name,
                     description |-> Violations(call[1].resolved)[j].reason]]

C2_LaterPathReportedToo ==
    /\ Validated
    /\ Len(call[1].resolved) = 2
    /\ call[1].resolved[1].errors # <<>>
    /\ Len(call[1].resolved[2].errors) = 2
    /\ Len(call[1].aborts[1].details[1].field_violations)
            = Len(call[1].resolved[1].errors) + 2

\* the qualified name a resolution gave a test went through an element of a
\* repeated field
ThroughElement(e) == \E j \in 1..Len(e.did) : \E k \in 1..Len(e.did[j].name) :
                        e.did[j].name[k] = "["

\* C3: a mandatory path whose resolution reaches an unset nested-message field
\* produces exactly one violation, 'request must have <name up to that
\* field>', descends no further and applies no leaf validator.
C3_MandatoryUnsetOneViolation ==
    Validated =>
        \A i \in 1..Len(call[1].resolved) :
            LET e == call[1].resolved[i]
                last == e.did[Len(e.did)]
            IN  (/\ ListedIn(e.field_name, MandatoryBuckets)
                 /\ ~ThroughElement(e)
                 /\ FoundUnset(e))
                => /\ last.op = "HasField" /\ ~last.ok
                   /\ e.errors = <<_Error(last.name, RequestMustHave \o last.name)>>
                   /\ \A j \in 1..Len(e.did) : e.did[j].op = "HasField"

\* the elements of points in which name is unset
NamelessPoints(elems) == {n \in 0..(Len(elems) - 1) : ~HasField(elems[n + 1], f_name)}

\* C4: a path with segments after a repeated field is resolved in every
\* element of the field, in index order, under names that begin with the
\* field's name and a zero-based '[i]'; has=['points.name'] yields exactly one
\* 'request must have points[i].name' per element without a name; an empty or
\* absent repeated field yields no violation.
C4_EveryElementInIndexOrder ==
    Validated /\ call[1].request.v.DESCRIPTOR = "Path" =>
        \A i \in 1..Len(call[1].resolved) :
            LET e == call[1].resolved[i]
                elems == HeadElems(call[1].request, e.field_name)
                Within(name, n) == StartsWith(name, ElementName(f_points, n) \o <<".">>)
                ElementOf(name) == CHOOSE n \in 0..(Len(elems) - 1) : Within(name, n)
                nameless == Ascending(NamelessPoints(elems))
            IN  split(e.field_name)[1] = f_points /\ Len(split(e.field_name)) > 1 =>
                /\ \A j \in 1..Len(e.did) :
                    \E n \in 0..(Len(elems) - 1) : Within(e.did[j].name, n)
                /\ \A j \in 1..Len(e.errors) :
                    \E n \in 0..(Len(elems) - 1) : Within(e.errors[j].field_name, n)
                /\ \A n \in 0..(Len(elems) - 1) :
                    \E j \in 1..Len(e.did) : Within(e.did[j].name, n)
                /\ \A j \in 1..(Len(e.did) - 1) :
                    ElementOf(e.did[j].name) <= ElementOf(e.did[j + 1].name)
                /\ \A j \in 1..(Len(e.errors) - 1) :
                    ElementOf(e.errors[j].field_name) <= ElementOf(e.errors[j + 1].field_name)
                /\ e.field_name = Dotted(<<f_points, f_name>>) =>
                    e.errors =
                        [j \in 1..Len(nameless) |->
                            _Error(ElementName(f_points, nameless[j]) \o <<".">> \o f_name,
                                   RequestMustHave \o ElementName(f_points, nameless[j])
                                        \o <<".">> \o f_name)]
                /\ elems = <<>> => e.errors = <<>>

C4_OnlySecondPointNameless ==
    /\ Validated
    /\ ConfiguredPaths = <<Dotted(<<f_points, f_name>>)>>
    /\ ListedIn(Dotted(<<f_points, f_name>>), {"has"})
    /\ Len(HeadElems(call[1].request, Dotted(<<f_points, f_name>>))) = 2
    /\ NamelessPoints(HeadElems(call[1].request, Dotted(<<f_points, f_name>>))) = {1}
    /\ Violations(call[1].resolved)
         = <<_Error(<<"p", "o", "i", "n", "t", "s", "[", "1", "]", ".", "n", "a", "m", "e">>,
                    RequestMustHave
                        \o <<"p", "o", "i", "n", "t", "s", "[", "1", "]", ".", "n", "a", "m", "e">>)>>

\* the elements of tags that are empty strings
EmptyTags(elems) == {n \in 0..(Len(elems) - 1) : elems[n + 1].v = <<>>}

\* C5: on the repeated field tags, non_empty=['tags'] checks the list itself,
\* once, and yields 'tags must be non-empty' exactly when it is empty;
\* non_empty=['tags[]'] checks every element under the name tags[i] and yields
\* 'tags[i] must be non-empty' for exactly the empty ones, so nothing for an
\* empty list.
C5_ContainerOrEveryElement ==
    Validated /\ call[1].request.v.DESCRIPTOR = "Route" =>
        \A i \in 1..Len(call[1].resolved) :
            LET e == call[1].resolved[i]
                elems == HeadElems(call[1].request, f_tags)
                empty == Ascending(EmptyTags(elems))
            IN  /\ e.field_name = f_tags /\ ConfiguredValidators(f_tags) = {NonEmptyValidator}
                    => /\ [j \in 1..Len(e.did) |-> e.did[j].name] = <<f_tags>>
                       /\ e.errors = IF elems = <<>>
                                     THEN <<_Error(f_tags, f_tags \o MustBeNonEmpty)>>
                                     ELSE <<>>
                /\ e.field_name = Marked(f_tags)
                        /\ ConfiguredValidators(Marked(f_tags)) = {NonEmptyValidator}
                    => /\ [j \in 1..Len(e.did) |-> e.did[j].name]
                            = [j \in 1..Len(elems) |-> ElementName(f_tags, j - 1)]
                       /\ e.errors =
                            [j \in 1..Len(empty) |->
                                _Error(ElementName(f_tags, empty[j]),
                                       ElementName(f_tags, empty[j]) \o MustBeNonEmpty)]

C5_OnlySecondTagEmpty ==
    /\ Validated
    /\ ConfiguredPaths = <<Marked(f_tags)>>
    /\ HeadElems(call[1].request, f_tags) = <<PyStr(<<"a">>), PyStr(<<>>)>>
    /\ Violations(call[1].resolved)
         = <<_Error(<<"t", "a", "g", "s", "[", "1", "]">>,
                    <<"t", "a", "g", "s", "[", "1", "]">> \o MustBeNonEmpty)>>

\* a violation of presence
IsPresenceError(error) == StartsWith(error.reason, RequestMustHave)

\* the resolution of the path of e as validate_message would make it were the
\* path mandatory, with the same validators
AsMandatory(e) ==
    _recurse_validate(call[1].request, e.field_name, call[1].validation_context,
                      FieldValidators(wrapper[1], e.field_name), None, FALSE)

\* C6: a path of an optional bucket yields no violation where a nested-message
\* field on it is unset; where every such field is set it yields the
\* violations it would yield were it mandatory; in all, it yields those of a
\* mandatory path but the violations of presence.
C6_OptionalUnsetNoViolation ==
    Validated =>
        \A i \in 1..Len(call[1].resolved) :
            LET e == call[1].resolved[i]
                NotPresence(error) == ~IsPresenceError(error)
            IN  ListedIn(e.field_name, OptionalBuckets) =>
                    /\ (FoundUnset(e) /\ ~ThroughElement(e) => e.errors = <<>>)
                    /\ (~FoundUnset(e) => e.errors = AsMandatory(e).errors)
                    /\ e.errors = SelectSeq(AsMandatory(e).errors, NotPresence)

C6_UnsetPassesMalformedFails ==
    /\ Validated
    /\ Len(call[1].resolved) = 2
    /\ ListedIn(call[1].resolved[1].field_name, {"optional_uuids"})
    /\ ~ListedIn(call[1].resolved[1].field_name, MandatoryBuckets)
    /\ FoundUnset(call[1].resolved[1])
    /\ call[1].resolved[1].errors = <<>>
    /\ ListedIn(call[1].resolved[2].field_name, {"optional_non_empty"})
    /\ ~FoundUnset(call[1].resolved[2])
    /\ call[1].resolved[2].errors
        = <<_Error(Dotted(<<f_message, f_value>>),
                   Dotted(<<f_message, f_value>>) \o MustBeNonEmpty)>>

----------------------------------------------------------------------------
(* Properties of a registration (SpecReg).                                 *)

\* the paths the decorator that was called checks the syntax of: every path of
\* its buckets, but for has in validate_streaming_args the key its validator
\* is stored under
SyntaxChecked ==
    {ConfiguredPaths[i] : i \in {k \in 1..Len(ConfiguredPaths) :
                                    \/ decorator = Some("validate_args")
                                    \/ k > Len(ArgPaths(config[1], "has"))}}
    \cup (IF decorator = Some("validate_args") THEN {}
          ELSE {HasPathStr(ArgPaths(config[1], "has")[i]) :
                    i \in 1..Len(ArgPaths(config[1], "has"))})

\* some path is in a mandatory bucket and in an optional bucket
Overlaps ==
    \E i \in 1..Len(ConfiguredPaths) :
        /\ ListedIn(ConfiguredPaths[i], {"uuids", "non_empty", "non_default", "validators"})
        /\ ListedIn(ConfiguredPaths[i], OptionalBuckets)

\* C7 as stated: every registration with a path in a mandatory and in an
\* optional bucket fails with 'Overlap in mandatory and optional fields'.
C7_OverlapRaisesOverlap ==
    decorator # None /\ Overlaps =>
        raised = Some(OverlapInMandatoryAndOptional) /\ wrapper = None

\* C7: every registration with a path in a mandatory and in an optional bucket
\* fails with a ValueError and produces no wrapper; the error is 'Overlap in
\* mandatory and optional fields' when every path passes the syntax check, and
\* the syntax error of a malformed path otherwise.
C7_OverlapFailsRegistration ==
    decorator # None /\ Overlaps =>
        /\ wrapper = None
        /\ IF \A p \in SyntaxChecked : is_valid_field_path(p)
           THEN raised = Some(OverlapInMandatoryAndOptional)
           ELSE \E p \in SyntaxChecked :
                    ~is_valid_field_path(p) /\ raised = Some(SyntaxError(p))

C7_OverlapRejected ==
    /\ decorator # None
    /\ Overlaps
    /\ ListedIn(Dotted(<<f_uuid, f_value>>), {"non_empty"})
    /\ ListedIn(Dotted(<<f_uuid, f_value>>), {"optional_uuids"})
    /\ raised = Some(OverlapInMandatoryAndOptional)
    /\ wrapper = None

\* C8: validate_args fails with 'Should provide at least one field to
\* validate' whenever no bucket holds a path, the buckets omitted or passed
\* empty.
C8_NoPathRaises ==
    decorator = Some("validate_args") /\ ConfiguredPaths = <<>> =>
        raised = Some(ShouldProvideAtLeastOne) /\ wrapper = None

\* C9: validate_args fails with the ValueError that names the offending path
\* whenever a path of any bucket is not in the grammar of field paths.
C9_MalformedPathRaises ==
    decorator = Some("validate_args")
        /\ (\E i \in 1..Len(ConfiguredPaths) : ~InGrammar(ConfiguredPaths[i]))
    => /\ wrapper = None
       /\ \E i \in 1..Len(ConfiguredPaths) :
            ~InGrammar(ConfiguredPaths[i]) /\ raised = Some(SyntaxError(ConfiguredPaths[i]))

----------------------------------------------------------------------------
(* The repetition marker (Spec).                                           *)

\* the path ends with the marker
IsMarked(field_path) ==
    Len(field_path) >= 2 /\ SubSeq(field_path, Len(field_path) - 1, Len(field_path)) = <<"[", "]">>

\* the path without the marker it ends with
Unmarked(field_path) == SubSeq(field_path, 1, Len(field_path) - 2)

\* the descriptor of the field a path of names ends at, from a message type
RECURSIVE FinalField(_, _)
FinalField(descriptor, parts) ==
    IF Len(parts) = 1 THEN fields_by_name(descriptor, parts[1])
    ELSE FinalField(Descriptors[fields_by_name(descriptor, parts[1]).message_type], Tail(parts))

\* the resolution of the path of e without its marker, all else the same
WithoutMarker(e) ==
    _recurse_validate(call[1].request, Unmarked(e.field_name), call[1].validation_context,
                      FieldValidators(wrapper[1], e.field_name), None,
                      IsOptional(wrapper[1], e.field_name))

\* C11 as stated: a path 'p[]' yields the violations of the path 'p', for every
\* request and every validator set.
C11_MarkerChangesNothing ==
    Validated =>
        \A i \in 1..Len(call[1].resolved) :
            IsMarked(call[1].resolved[i].field_name) =>
                call[1].resolved[i].errors = WithoutMarker(call[1].resolved[i]).errors

\* C11: on a final field that is not repeated, 'p[]' yields the violations of
\* 'p'; on a repeated final field 'p' applies every validator once, to the
\* list, under the name p, and 'p[]' applies every validator to every element,
\* under the names p[i].
C11_MarkerMeansEveryElement ==
    Validated =>
        \A i \in 1..Len(call[1].resolved) :
            LET e == call[1].resolved[i]
                p == Unmarked(e.field_name)
                elems == HeadElems(call[1].request, p)
                IsCheck(d) == d.op = "check"
                Checks(did) ==
                    {<<d.name, d.validator[1]>> : d \in {did[j] : j \in
                        {k \in 1..Len(did) : did[k].op = "check"}}}
            IN  IsMarked(e.field_name) =>
                    IF FinalField(DescriptorOf(call[1].request),
                                  NonEmptyParts(split(p))).label # LABEL_REPEATED
                    THEN e.errors = WithoutMarker(e).errors
                    ELSE /\ Checks(e.did)
                            = {<<ElementName(p, n), v>> :
                                    n \in 0..(Len(elems) - 1),
                                    v \in ConfiguredValidators(e.field_name)}
                         /\ Len(SelectSeq(e.did, IsCheck))
                            = Len(elems) * Cardinality(ConfiguredValidators(e.field_name))
                         /\ Checks(WithoutMarker(e).did)
                            = {<<p, v>> : v \in ConfiguredValidators(e.field_name)}

C11_EmptyListPassesMarked ==
    /\ Validated
    /\ ConfiguredPaths = <<Marked(f_tags)>>
    /\ ListedIn(Marked(f_tags), {"non_empty"})
    /\ HeadElems(call[1].request, f_tags) = <<>>
    /\ call[1].resolved[1].errors = <<>>
    /\ call[1].handled = <<call[1].request>>
    /\ WithoutMarker(call[1].resolved[1]).errors = <<_Error(f_tags, f_tags \o MustBeNonEmpty)>>

----------------------------------------------------------------------------
(* The two notations of a path through a list (SpecReg).                   *)

\* C12: a configuration whose paths go through the list points, written
\* 'points.name' or 'points[].name', is accepted at registration by both
\* decorators.
C12_BothNotationsAccepted ==
    (/\ decorator # None
     /\ ConfiguredPaths # <<>>
     /\ \A i \in 1..Len(ConfiguredPaths) :
            ConfiguredPaths[i] \in {Dotted(<<f_points, f_name>>),
                                    Dotted(<<Marked(f_points), f_name>>)})
    => raised = None /\ wrapper # None

----------------------------------------------------------------------------
(* The rich-error toggle (Spec).                                           *)

\* C13: a rejection follows the toggle as it is when the request is rejected:
\* enabled, the status holds the summary and one BadRequest detail with an
\* entry per violation; disabled, it holds the code and the summary alone.
C13_PayloadFollowsToggle ==
    call # None /\ call[1].aborts # <<>> =>
        /\ call[1].aborts[1].code = "INVALID_ARGUMENT"
        /\ call[1].aborts[1].message
            = Take(join(<<",", " ">>, Reasons(Violations(call[1].resolved))), MaxMessageLen)
        /\ IF _use_rich_grpc_errors
           THEN /\ Len(call[1].aborts[1].details) = 1
                /\ Len(call[1].aborts[1].details[1].field_violations)
                    = Len(Violations(call[1].resolved))
           ELSE call[1].aborts[1].details = <<>>

----------------------------------------------------------------------------
(* Streams passed to a handler decorated with validate_args.               *)

\* what the rules of w find in req when it is element i of a stream
Found(w, req, i) ==
    ResolveFields(w, req, w.field_names,
                  [is_streaming |-> TRUE, streaming_message_index |-> Some(i)])

\* req violates no rule of w / violates some rule of w
Clean(w, req) == Found(w, req, 0).exc = None /\ Found(w, req, 0).errors = <<>>

Violating(w, req) == Found(w, req, 0).exc = None /\ Found(w, req, 0).errors # <<>>

\* the handler has asked for both elements of a stream of two, of which only
\* the second violates a rule
OnlySecondViolates ==
    /\ stream # None
    /\ wrapper # None
    /\ Len(stream[1].requests) = 2
    /\ Clean(wrapper[1], stream[1].requests[1])
    /\ Violating(wrapper[1], stream[1].requests[2])
    /\ stream[1].requested >= 2

\* one rejection, made while element 1 is validated; none for element 0
OneRejectionAtIndexOne ==
    /\ Len(stream[1].aborts) = 1
    /\ stream[1].state = "raised"
    /\ Len(stream[1].validated) = 2
    /\ stream[1].validated[1].streaming_message_index = 0
    /\ stream[1].validated[1].errors = <<>>
    /\ stream[1].validated[2].streaming_message_index = 1
    /\ stream[1].validated[2].validation_context
        = [is_streaming |-> TRUE, streaming_message_index |-> Some(1)]
    /\ stream[1].validated[2].errors # <<>>
    /\ stream[1].validated[2].errors = Violations(stream[1].validated[2].resolved)
    /\ stream[1].aborts[1].message
        = Take(join(<<",", " ">>, Reasons(stream[1].validated[2].errors)), MaxMessageLen)

\* C14 (as stated): when a stream of two elements is passed to a handler
\* decorated with validate_args and only the second element violates a rule,
\* there is exactly one rejection, it references stream index 1 (its status
\* is not the one the same element gets at another index), and no violation
\* is reported for the element at index 0.
C14_RejectionReferencesIndex ==
    OnlySecondViolates =>
        /\ OneRejectionAtIndexOne
        /\ stream[1].aborts[1]
            # _create_rich_validation_error(Found(wrapper[1], stream[1].requests[2], 0).errors)

\* C14 (amended): there is exactly one rejection, made while the element at
\* stream index 1 is validated, with the validation context of index 1, and
\* no violation is reported for the element at index 0; the status of the
\* rejection holds the reasons of that element.
C14_OneRejectionForSecond == OnlySecondViolates => OneRejectionAtIndexOne

C14_SecondOfTwoRejected ==
    /\ OnlySecondViolates
    /\ stream[1].state = "raised"
    /\ stream[1].delivered = <<stream[1].requests[1]>>

\* the violation list of req as element i: there is none when a fault (a field
\* the message does not have) ends the validation
ViolationsAt(w, req, i) ==
    IF Found(w, req, i).exc = None THEN Found(w, req, i).errors ELSE <<>>

\* the elements of the stream under call that were validated and found clean
CleanPrefix(g) ==
    IF g.validated # <<>> /\ g.validated[Len(g.validated)].exc # None
    THEN SubSeq(g.requests, 1, g.pulled - 1)
    ELSE SubSeq(g.requests, 1, g.pulled)

\* every element pulled was validated, as the element of its index, and only
\* the last one pulled can have been found in violation
ValidateThenYield(w, g) ==
    /\ Len(g.validated) = g.pulled
    /\ g.pulled <= Len(g.requests)
    /\ \A k \in 1..g.pulled :
        /\ g.validated[k].request = g.requests[k]
        /\ g.validated[k].streaming_message_index = k - 1
        /\ g.validated[k].errors = ViolationsAt(w, g.requests[k], k - 1)
        /\ g.validated[k].errors # <<>> => g.validated[k].exc = Some("abort")
        /\ k < g.pulled => g.validated[k].exc = None /\ g.validated[k].errors = <<>>
    /\ g.delivered = CleanPrefix(g)

\* the call is aborted, once, when and only when the last element pulled has
\* violations, and it is then over
AbortAtFirstViolation(g) ==
    IF g.validated # <<>> /\ g.validated[Len(g.validated)].errors # <<>>
    THEN /\ g.state = "raised"
         /\ Len(g.aborts) = 1
         /\ g.delivered = SubSeq(g.requests, 1, g.pulled - 1)
         /\ \A k \in 1..(g.pulled - 1) : Clean(wrapper[1], g.requests[k])
         /\ Violating(wrapper[1], g.requests[g.pulled])
    ELSE g.aborts = <<>>

\* an aborted call pulls, validates and delivers nothing more
NothingAfterAbort ==
    stream # None /\ stream[1].state = "raised" => stream' = None

\* C15: in streaming mode of validate_args, element i is delivered to the
\* handler only after its validation produced no violation; the call is
\* aborted at the first pulled element whose violation list is non-empty,
\* that element is not delivered, and no later element is pulled or
\* validated; the handler receives exactly the input elements that precede
\* the first violating one, in input order, unmodified, each once.
C15_CleanPrefixDelivered ==
    /\ [](stream # None =>
            /\ ValidateThenYield(wrapper[1], stream[1])
            /\ AbortAtFirstViolation(stream[1]))
    /\ [][NothingAfterAbort]_vars

C15_AbortedBeforeSecondPulled ==
    /\ stream # None
    /\ Len(stream[1].requests) = 2
    /\ stream[1].state = "raised"
    /\ Len(stream[1].aborts) = 1
    /\ stream[1].pulled = 1
    /\ stream[1].delivered = <<>>
    /\ Violating(wrapper[1], stream[1].requests[2])

\* the smaller of two numbers
Min(a, b) == IF a <= b THEN a ELSE b

\* as many elements are pulled from the input as the handler asked for (a
\* request after the last element finds nothing to pull), each is validated
\* when pulled, and none is kept back
PulledAsRequested(g) ==
    /\ g.pulled = Min(g.requested, Len(g.requests))
    /\ Len(g.validated) = g.pulled
    /\ Len(g.delivered) = (IF g.exc = None THEN g.pulled ELSE g.pulled - 1)
    /\ g.requested = 0 => g.validated = <<>> /\ g.aborts = <<>> /\ g.state # "raised"

\* a rejection is the doing of an element the handler asked for
RejectedOnlyWhenPulled(w, g) ==
    /\ g.requests = <<>> => g.aborts = <<>> /\ g.exc = None
    /\ g.state = "returned" => g.aborts = <<>> /\ g.exc = None
    /\ g.aborts # <<>> => g.pulled >= 1 /\ Violating(w, g.requests[g.pulled])

\* C16: in streaming mode of validate_args the handler is invoked at once
\* with a lazy sequence, and input elements are pulled and validated only
\* when the handler requests the next element: at every point the number of
\* elements pulled equals the number the handler has requested; a call on
\* an empty stream, or one whose handler stops before pulling a violating
\* element, ends without any rejection, whatever rules are configured.
C16_PulledOnlyOnRequest ==
    stream # None =>
        /\ PulledAsRequested(stream[1])
        /\ RejectedOnlyWhenPulled(wrapper[1], stream[1])

C16_ReturnedBeforeViolatingElement ==
    /\ stream # None
    /\ Len(stream[1].requests) = 2
    /\ stream[1].state = "returned"
    /\ stream[1].requested = 1
    /\ stream[1].delivered = <<stream[1].requests[1]>>
    /\ Violating(wrapper[1], stream[1].requests[2])
    /\ stream[1].aborts = <<>>

\* the violations of a resolution name elements of the repeated field `head`
\* in ascending order
ElementsAscend(errors, head, n) ==
    LET At(name) == CHOOSE i \in 0..(n - 1) : StartsWith(name, ElementName(head, i))
    IN  /\ \A j \in 1..Len(errors) :
            \E i \in 0..(n - 1) : StartsWith(errors[j].field_name, ElementName(head, i))
        /\ \A j \in 1..(Len(errors) - 1) :
            At(errors[j].field_name) <= At(errors[j + 1].field_name)

\* C17: the aggregated violation list of one request is ordered first by path
\* in rule order (bucket after bucket, list order inside a bucket) and then,
\* within one path, by ascending repeated-element index: all violations of an
\* earlier path precede those of a later path, and within a path no violation
\* for element i+1 precedes a violation for element i, also when the path has
\* several leaf validators.
C17_PathOrderThenIndexOrder ==
    Validated =>
        /\ Len(call[1].resolved) = Len(ConfiguredPaths)
        /\ \A i \in 1..Len(call[1].resolved) :
            call[1].resolved[i].field_name = ConfiguredPaths[i]
        /\ call[1].errors = Violations(call[1].resolved)
        /\ \A i \in 1..Len(call[1].resolved) :
            LET e == call[1].resolved[i]
                elems == HeadElems(call[1].request, e.field_name)
            IN  elems # <<>> /\ e.errors # <<>>
                /\ (IsMarked(e.field_name) \/ Len(split(e.field_name)) > 1)
                => ElementsAscend(e.errors, rstrip(split(e.field_name)[1]), Len(elems))

Alone(w, req) ==
    CallHandler(req, [is_streaming |-> FALSE, streaming_message_index |-> None],
                AbortIfErrors(ResolveFields(w, req, w.field_names,
                    [is_streaming |-> FALSE, streaming_message_index |-> None])))

\* C19: for any number of concurrent invocations of the same decorated
\* handler, in any interleaving, the outcome of each invocation (forwarded,
\* or rejected with a given ordered violation list) equals the outcome of
\* validating its own request alone; the invocations share only the
\* rule-set, which none modifies, and none reads or writes the violation
\* list or the ValidationContext of another.
C19_OutcomeAsIfAlone ==
    /\ [](\A k \in 1..Len(invocations) :
            /\ invocations[k].validation_context
                = [is_streaming |-> FALSE, streaming_message_index |-> None]
            /\ invocations[k].r.exc = None =>
                invocations[k].r
                    = ResolveFields(wrapper[1], invocations[k].request,
                                    SubSeq(wrapper[1].field_names, 1, invocations[k].next - 1),
                                    invocations[k].validation_context)
            /\ invocations[k].outcome # None =>
                invocations[k].outcome[1] = Alone(wrapper[1], invocations[k].request))
    /\ [][invocations # <<>> => wrapper' = wrapper /\ config' = config]_vars

C19_InterleavedRejectedAndForwarded ==
    /\ Len(invocations) = 2
    /\ invocations[1].outcome = None
    /\ invocations[1].next = 2
    /\ invocations[1].r.errors # <<>>
    /\ invocations[2].outcome # None
    /\ invocations[2].outcome[1].handled = <<invocations[2].request>>
    /\ Len(wrapper[1].field_names) = 2

----------------------------------------------------------------------------
(* Streams passed to a handler decorated with validate_streaming_args.     *)

\* the field a path of names ends at is not set in the message (nor is it
\* when a message on the way to it is not set)
RECURSIVE Unset(_, _)
Unset(message, parts) ==
    IF parts[1] \notin DOMAIN message.v.fields THEN TRUE
    ELSE IF Len(parts) = 1 THEN FALSE
    ELSE Unset(message.v.fields[parts[1]], Tail(parts))

\* '<field> must be set in message request index <i>'
MustBeSetReason(field, i) ==
    field \o <<" ", "m", "u", "s", "t", " ", "b", "e", " ", "s", "e", "t", " ", "i", "n", " ", "m", "e", "s", "s", "a", "g", "e", " ", "r", "e", "q", "u", "e", "s", "t", " ", "i", "n", "d", "e", "x", " ">>
        \o IntToStr(i)

\* the text s holds the text part
Contains(s, part) ==
    \E i \in 0..(Len(s) - Len(part)) : SubSeq(s, i + 1, i + Len(part)) = part

\* the last of the names of a path
LastName(field_path) == split(field_path)[Len(split(field_path))]

\* C20: for validate_streaming_args, every path listed in has is checked for
\* presence in every stream element the handler pulls: if the named field is
\* unset in element i, the call is aborted with INVALID_ARGUMENT and a reason
\* '<field> must be set in message request index <i>'; also for has lists
\* with several paths of the same parent, and for configurations that pass a
\* validator of their own for that parent path.
C20_EveryHasPathChecked ==
    stream # None =>
        \A k \in 1..Len(stream[1].validated) :
            \A j \in 1..Len(ArgPaths(config[1], "has")) :
                Unset(stream[1].validated[k].request, split(ArgPaths(config[1], "has")[j])) =>
                    /\ stream[1].validated[k].exc = Some("abort")
                    /\ Len(stream[1].aborts) = 1
                    /\ stream[1].aborts[1].code = "INVALID_ARGUMENT"
                    /\ Contains(stream[1].aborts[1].details,
                                MustBeSetReason(LastName(ArgPaths(config[1], "has")[j]), k - 1))

\* the names of a path before its last: the messages on the way to its field
Parents(field_path) == SubSeq(split(field_path), 1, Len(split(field_path)) - 1)

\* the value a path of names ends at, every message on the way being set
RECURSIVE ValueAt(_, _)
ValueAt(message, parts) ==
    IF Len(parts) = 1 THEN getattr(message, parts[1])
    ELSE ValueAt(getattr(message, parts[1]), Tail(parts))

\* C21: the optional buckets of validate_streaming_args mirror those of
\* validate_args: for a path in an optional bucket, a stream element in which
\* a nested-message field along the path is unset produces no violation for
\* the path, and is forwarded when nothing else is configured, while an
\* element in which it is set but invalid is rejected.
C21_StreamingOptionalUnsetForwarded ==
    stream # None =>
        \A k \in 1..Len(stream[1].validated) :
            \A j \in 1..Len(ConfiguredPaths) :
                LET p == ConfiguredPaths[j]
                    e == stream[1].validated[k]
                IN  ListedIn(p, OptionalBuckets) /\ Len(split(p)) > 1 =>
                        IF Unset(e.request, Parents(p))
                        THEN /\ \A i \in 1..Len(e.errors) : ~StartsWith(e.errors[i], p \o <<" ">>)
                             /\ Len(ConfiguredPaths) = 1 =>
                                    e.exc = None /\ stream[1].delivered[k] = e.request
                        ELSE Len(ValueAt(e.request, split(p)).v) = 0 /\ e.exc \in {None, Some("abort")}
                             => \E i \in 1..Len(e.errors) : StartsWith(e.errors[i], p \o <<" ">>)

\* C22: validate_streaming_args checks the syntax of every path of the
\* configuration, the paths of has included, at registration: a malformed
\* path in any bucket makes the registration fail with the ValueError that
\* names the path, and no wrapper is produced that could meet the path while
\* an element is validated.
C22_StreamingMalformedPathRaises ==
    decorator = Some("validate_streaming_args")
        /\ (\E i \in 1..Len(ConfiguredPaths) : ~is_valid_field_path(ConfiguredPaths[i]))
    => /\ wrapper = None
       /\ \E i \in 1..Len(ConfiguredPaths) :
            /\ ~is_valid_field_path(ConfiguredPaths[i])
            /\ raised = Some(SyntaxError(ConfiguredPaths[i]))

----------------------------------------------------------------------------
(* The root path '.', paths in several buckets, the status (Spec).         *)

\* the checks of a resolution that were not valid
FailedChecks(e) ==
    LET Failed(d) == d.op = "check" /\ ~d.ok
    IN  SelectSeq(e.did, Failed)

\* a Route the tests' RouteValidator accepts: points, and a name that is not
\* empty
GoodRoute(request) ==
    /\ f_path \in DOMAIN request.v.fields
    /\ f_points \in DOMAIN request.v.fields[f_path].v.fields
    /\ f_name \in DOMAIN request.v.fields
    /\ f_value \in DOMAIN request.v.fields[f_name].v.fields

\* C23: for the root path '.', validate_args applies each configured leaf
\* validator exactly once to the whole request message, with the name of the
\* message type as the qualified name, makes no presence test, and reports
\* each failing validator as one violation whose field name is that name.
C23_RootValidatedOnceByTypeName ==
    Validated =>
        \A i \in 1..Len(call[1].resolved) :
            LET e == call[1].resolved[i]
                vs == FieldValidators(wrapper[1], <<".">>)
                type_name == Descriptors[call[1].request.v.DESCRIPTOR].name
            IN  e.field_name = <<".">> =>
                    /\ Len(e.did) = Len(vs)
                    /\ \A j \in 1..Len(e.did) :
                        /\ e.did[j].op = "check"
                        /\ e.did[j].name = type_name
                        /\ e.did[j].validator = Some(vs[j])
                        /\ vs[j].cls = "RouteValidator" => (e.did[j].ok <=> GoodRoute(call[1].request))
                        /\ vs[j].cls = "UUIDBytesValidator" => ~e.did[j].ok
                    /\ Len(e.errors) = Len(FailedChecks(e))
                    /\ \A j \in 1..Len(e.errors) : e.errors[j].field_name = type_name

C23_RouteRejectedByTypeName ==
    /\ Validated
    /\ call[1].request.v.DESCRIPTOR = "Route"
    /\ ~GoodRoute(call[1].request)
    /\ Len(call[1].resolved) = 1
    /\ call[1].resolved[1].field_name = <<".">>
    /\ Len(call[1].resolved[1].did) = 1
    /\ call[1].resolved[1].did[1].validator = Some(RouteValidator)
    /\ Len(call[1].errors) = 1
    /\ call[1].errors[1].field_name = <<"R", "o", "u", "t", "e">>

\* the resolutions without those of a path resolved before
RECURSIVE OncePerPath(_, _)
OncePerPath(resolved, seen) ==
    IF resolved = <<>> THEN <<>>
    ELSE IF resolved[1].field_name \in seen THEN OncePerPath(Tail(resolved), seen)
    ELSE <<resolved[1]>> \o OncePerPath(Tail(resolved), seen \cup {resolved[1].field_name})

\* C24: a path that appears in several buckets of validate_args is resolved
\* once per invocation with the union of its validators, so that every failing
\* check contributes exactly one violation: no violation is reported twice.
C24_NoViolationTwice ==
    Validated =>
        /\ call[1].resolved = OncePerPath(call[1].resolved, {})
        /\ call[1].errors = Violations(OncePerPath(call[1].resolved, {}))

----------------------------------------------------------------------------
(* The status of a rejection (SpecStatus).                                 *)

\* the length of the reasons joined with ', '
RECURSIVE JoinedLen(_)
JoinedLen(errors) ==
    IF Len(errors) = 0 THEN 0
    ELSE IF Len(errors) = 1 THEN Len(errors[1].reason)
    ELSE Len(errors[1].reason) + 2 + JoinedLen(Tail(errors))

\* character k of the reasons joined with ', '
RECURSIVE JoinedChar(_, _)
JoinedChar(errors, k) ==
    IF k <= Len(errors[1].reason) THEN errors[1].reason[k]
    ELSE IF k = Len(errors[1].reason) + 1 THEN ","
    ELSE IF k = Len(errors[1].reason) + 2 THEN " "
    ELSE JoinedChar(Tail(errors), k - Len(errors[1].reason) - 2)

\* C25: for every non-empty violation list, the status built by
\* _create_rich_validation_error has code INVALID_ARGUMENT, a message equal to
\* the first 1000 characters of the reasons joined with ', ' in violation order
\* (never longer than 1000), and one BadRequest detail with exactly one field
\* violation per violation, in the same order, field name and reason whole.
C25_StatusOfViolations ==
    status # None =>
        LET errors == status[1].errors
            built == status[1].status
        IN  /\ built.code = "INVALID_ARGUMENT"
            /\ Len(built.message) <= 1000
            /\ Len(built.message) = Min(JoinedLen(errors), 1000)
            /\ \A k \in 1..Len(built.message) : built.message[k] = JoinedChar(errors, k)
            /\ Len(built.details) = 1
            /\ Len(built.details[1].field_violations) = Len(errors)
            /\ \A i \in 1..Len(errors) :
                /\ built.details[1].field_violations[i].field = errors[i].field_name
                /\ built.details[1].field_violations[i].description = errors[i].reason

\* two violations whose joined reasons are cut, the second after its comma
C25_MessageCut ==
    /\ status # None
    /\ Len(status[1].errors) = 2
    /\ Len(status[1].errors[1].reason) = 998
    /\ Len(status[1].errors[2].reason) = 1001
    /\ Len(status[1].status.message) = 1000
    /\ status[1].status.message[999] = ","
    /\ status[1].status.message[1000] = " "
    /\ Len(status[1].status.details[1].field_violations[2].description) = 1001

----------------------------------------------------------------------------
(* The ValidationContext of an invocation (SpecContext).                   *)

\* every check of these resolutions was given validation context c
CheckedWith(resolved, c) ==
    \A i \in 1..Len(resolved) :
        \A j \in 1..Len(resolved[i].did) :
            resolved[i].did[j].op = "check" => resolved[i].did[j].validation_context = Some(c)

\* these resolutions made a check
SomeCheck(resolved) ==
    \E i \in 1..Len(resolved) :
        \E j \in 1..Len(resolved[i].did) : resolved[i].did[j].op = "check"

\* C26: every leaf validator invoked by validate_args receives a
\* ValidationContext that matches the invocation: for one message is_streaming
\* is false and streaming_message_index is None; for a stream the k-th element
\* pulled (k = 0, 1, ...) is validated with is_streaming true and
\* streaming_message_index = k, for every path and validator of the element.
C26_ContextMatchesInvocation ==
    /\ call # None =>
        CheckedWith(call[1].resolved, [is_streaming |-> FALSE, streaming_message_index |-> None])
    /\ stream # None =>
        \A k \in 1..Len(stream[1].validated) :
            /\ stream[1].validated[k].request = stream[1].requests[k]
            /\ CheckedWith(stream[1].validated[k].resolved,
                           [is_streaming |-> TRUE, streaming_message_index |-> Some(k - 1)])

C26_SecondElementCheckedWithIndexOne ==
    /\ stream # None
    /\ Len(stream[1].validated) = 2
    /\ SomeCheck(stream[1].validated[1].resolved)
    /\ SomeCheck(stream[1].validated[2].resolved)
    /\ CheckedWith(stream[1].validated[2].resolved,
                   [is_streaming |-> TRUE, streaming_message_index |-> Some(1)])
    /\ Len(wrapper[1].field_names) = 2

----------------------------------------------------------------------------
(* The order of the configuration errors (SpecReg).                        *)

\* the places of the configured paths that are not in the grammar
Malformed == {i \in 1..Len(ConfiguredPaths) : ~InGrammar(ConfiguredPaths[i])}

\* C27: the configuration errors of validate_args are raised in a fixed order:
\* the empty-rule-set check first, then the syntax check of every path in rule
\* order (the first malformed path is the one named), then the overlap check;
\* a configuration with a malformed path and an overlap fails with the syntax
\* error, and in every case no wrapper is produced.
C27_ErrorsInFixedOrder ==
    decorator = Some("validate_args") =>
        /\ raised = Some(ShouldProvideAtLeastOne) => ConfiguredPaths = <<>>
        /\ Malformed # {} =>
            \E i \in Malformed :
                /\ \A k \in Malformed : i <= k
                /\ raised = Some(SyntaxError(ConfiguredPaths[i]))
        /\ (Malformed = {} /\ Overlaps) => raised = Some(OverlapInMandatoryAndOptional)
        /\ raised # None => wrapper = None

----------------------------------------------------------------------------
(* A has path that other buckets list too (Spec).                          *)

\* C28: for every configuration validate_args accepts and every path p of has:
\* whenever a nested-message field along p is unset in the request, the request
\* is rejected with a 'request must have <qualified path>' violation for p and
\* the handler does not run, whichever other buckets list p.
C28_HasUnsetAlwaysRejected ==
    Validated =>
        \A i \in 1..Len(call[1].resolved) :
            LET e == call[1].resolved[i]
            IN  ListedIn(e.field_name, {"has"}) =>
                    \A j \in 1..Len(e.did) :
                        (e.did[j].op = "HasField" /\ ~e.did[j].ok)
                        => /\ call[1].exc = Some("abort")
                           /\ call[1].handled = None
                           /\ InList(_Error(e.did[j].name, RequestMustHave \o e.did[j].name),
                                     call[1].errors)

----------------------------------------------------------------------------
(* The caller's objects (SpecShared).                                      *)

\* C29: registering a handler does not modify the configuration objects the
\* caller passed, and the rule-set of a registered handler does not change when
\* another handler is registered later, also when the same validators dict is
\* passed to several decorators: each handler validates the paths and
\* validators it was registered with.
C29_RegistrationLeavesRulesAlone ==
    \A k \in 1..Len(handlers) :
        /\ handlers[k].passed # None => caller_validators = handlers[k].passed
        /\ ClosureNow(handlers[k]).field_names = handlers[k].closure.field_names
        /\ \A i \in 1..Len(handlers[k].closure.field_names) :
            ValidatorsOf(ClosureNow(handlers[k]), handlers[k].closure.field_names[i])
                = ValidatorsOf(handlers[k].closure, handlers[k].closure.field_names[i])

----------------------------------------------------------------------------
(* The optional leading '.' (Spec).                                        *)

\* a path without its leading '.', the root path itself left as it is
WithoutLeadingDot(p) == IF Len(p) > 1 /\ p[1] = "." THEN Tail(p) ELSE p

\* the resolution of path p of the configuration, taken without its leading '.'
Undotted(p) ==
    _recurse_validate(call[1].request, WithoutLeadingDot(p), call[1].validation_context,
                      FieldValidators(wrapper[1], p), None, ListedIn(p, OptionalBuckets))

\* C30: every path accepted at registration that names existing fields of the
\* request type is resolved without a fault, and the optional leading '.' does
\* not change the result: '.p' yields the violations, with the qualified field
\* names, of 'p'.
C30_LeadingDotChangesNothing ==
    (/\ call # None
     /\ \A k \in 1..Len(wrapper[1].field_names) : Undotted(wrapper[1].field_names[k]).exc = None)
    => /\ call[1].exc \in {None, Some("abort")}
       /\ \A k \in 1..Len(wrapper[1].field_names) :
            call[1].resolved[k].errors = Undotted(wrapper[1].field_names[k]).errors
=============================================================================
